---------------------------- MODULE Spec2Model ----------------------------
(***************************************************************************)
(* Self-healing test-failure pipeline of PythonPlaywright_Hudl.            *)
(*                                                                         *)
(* The model follows src/conftest.py (the pytest_runtest_makereport hook,  *)
(* _capture_ai_healing_context, ensure_ollama_running) and                 *)
(* src/utils/ai_healing_decorator.py (OllamaAIHealingService and the       *)
(* ai_healing decorator), driven by a sequential test runner that reruns   *)
(* failed tests.                                                           *)
(***************************************************************************)
EXTENDS Integers, Sequences, FiniteSets, TLC

(***************************************************************************)
(* Bounds of the model.                                                    *)
(***************************************************************************)
\* largest value of the runner's rerun budget (option or per-test marker)
MaxReruns == 2

(***************************************************************************)
(* Test items.  Two items defined in different files that share the same   *)
(* function name: item.nodeid differs, item.name is equal.                 *)
(***************************************************************************)
TestIds == <<"a.py::test_x", "b.py::test_x">>

Tests == {TestIds[i] : i \in 1..Len(TestIds)}

ItemName(t) == "test_x"

\* the items that carry a rerun marker of their own; the others are rerun
\* as the run-wide option says
Marked == {TestIds[1]}

\* value of config.getoption("reruns") when the option was not given
NoneOpt == -1

VARIABLES
  enabled,          \* _ollama_service.enabled of conftest's service instance
  reruns_opt,       \* item.config.getoption("reruns")
  item_reruns,      \* the rerun budget the runner applies to each item
  fail_counts,      \* _ai_healing_fail_counts (only the keys that are present)
  has_store,        \* hasattr(_ollama_service, '_pending_contexts')
  pending_contexts, \* _ollama_service._pending_contexts
  ollama_checked,   \* _ollama_checked
  cur,              \* index in TestIds of the item the runner is executing
  phase,            \* position of the runner in the item's protocol
  execution_count,  \* attempts of the current item started so far
  attempt_failed,   \* a report of the current attempt failed
  call_failures,    \* failed call-phase reports of the current item so far
  hook,             \* what the last hook invocation did
  deco_contexts,    \* _pending_contexts of the decorator module's instance
  wrap,             \* what the last run of a decorated test did
  response_text,    \* the text handed to _parse_ollama_response
  parsed,           \* what _parse_ollama_response returned for it
  capture,          \* what the last context capture was given and produced
  gw,               \* the call of ensure_ollama_running in progress
  perf,             \* the page under measurement and the performance monitor
  lk                \* _ai_healing_lock and the workers reporting failures

vars == <<enabled, reruns_opt, item_reruns, fail_counts, has_store,
          pending_contexts, ollama_checked, cur, phase, execution_count,
          attempt_failed, call_failures, hook, deco_contexts, wrap,
          response_text, parsed, capture, gw, perf, lk>>

\* the variables of the parts of the program that run outside the hook and
\* the decorators
aux_vars == <<response_text, parsed, capture, gw, perf, lk>>

(***************************************************************************)
(* Python dictionaries: functions whose domain is the set of present keys. *)
(***************************************************************************)
EmptyDict == [k \in {} |-> 0]

DictPut(d, k, v) == [x \in (DOMAIN d) \cup {k} |-> IF x = k THEN v ELSE d[x]]

DictDel(d, k) == [x \in (DOMAIN d) \ {k} |-> d[x]]

\* defaultdict(int): reading a missing key yields 0
CountOf(d, k) == IF k \in DOMAIN d THEN d[k] ELSE 0

\* dict.get(k): None when the key is missing; a stored context is truthy
NoContext == [kind |-> "None"]

DictGet(d, k) == IF k \in DOMAIN d THEN d[k] ELSE NoContext

Truthy(c) == c.kind # "None"

(***************************************************************************)
(* What the world outside the hook does during one failure report.         *)
(***************************************************************************)
\* how the model service behaves while ensure_ollama_running runs:
\*   running        GET /api/tags answers 200
\*   non200         GET /api/tags answers with another status
\*   no_executable  the request raises and shutil.which("ollama") is None
\*   popen_fails    the request raises and subprocess.Popen raises
\*   never_up       the started service answers none of the 30 probes
\*   started        the started service answers a probe with 200
SvcKinds == {"running", "non200", "no_executable", "popen_fails", "never_up",
             "started"}

\* what client.generate does with the healing prompt, by the shape of the
\* response text
GenKinds == {"transport_error", "empty", "json_null", "json_nonobject",
             "json_error_object", "json_object_code", "json_object_nocode",
             "json_object_badconf", "prose"}

\* file system during generate_healing_report
WriteKinds == {"ok", "fail_report", "fail_candidate"}

\* one environment per distinguishable behaviour: a field that cannot be
\* observed in a combination is held at its first value
Envs ==
  {e \in [cap_ok : BOOLEAN, svc : SvcKinds, model_ok : BOOLEAN,
          gen : GenKinds, write : WriteKinds] :
     /\ e.svc \in {"no_executable", "popen_fails", "never_up"} => e.model_ok
     /\ e.write = "fail_candidate" => e.gen = "json_object_code"
     /\ e.write = "fail_report" =>
          e.gen \in {"json_object_code", "json_object_nocode", "prose"}}

(***************************************************************************)
(* max_reruns = item.config.getoption("reruns") or 0                       *)
(***************************************************************************)
MaxRerunsOf(opt) == IF opt = NoneOpt \/ opt = 0 THEN 0 ELSE opt

(***************************************************************************)
(* with _ai_healing_lock: counts[test_key] += 1; fail_count = counts[key]  *)
(***************************************************************************)
IncrementCount(counts, t) == DictPut(counts, t, CountOf(counts, t) + 1)

(***************************************************************************)
(* if fail_count > max_reruns: (final failure) else: (will be retried)     *)
(***************************************************************************)
IsFinalFailure_AtBudget(fail_count, max_reruns) == fail_count >= max_reruns

IsFinalFailure(fail_count, max_reruns) == fail_count > max_reruns

(***************************************************************************)
(* ensure_ollama_running: the service is probed, started when the probe    *)
(* raises, and the model is loaded; _ollama_checked is set on success.     *)
(***************************************************************************)
ensure_ollama_running(checked, env) ==
  IF checked
    THEN [result |-> TRUE, checked |-> TRUE, events |-> <<>>]
    ELSE
      LET load(evs) ==
            IF env.model_ok
              THEN [result |-> TRUE, checked |-> TRUE,
                    events |-> evs \o <<"model_load">>]
              ELSE [result |-> FALSE, checked |-> FALSE,
                    events |-> evs \o <<"model_load">>]
          no(evs) == [result |-> FALSE, checked |-> FALSE, events |-> evs]
      IN  CASE env.svc \in {"running", "non200"} -> load(<<"probe">>)
            [] env.svc = "no_executable" -> no(<<"probe">>)
            [] env.svc = "popen_fails"   -> no(<<"probe", "launch">>)
            [] env.svc = "never_up"      -> no(<<"probe", "launch", "probe">>)
            [] env.svc = "started"       -> load(<<"probe", "launch", "probe">>)

(***************************************************************************)
(* _capture_ai_healing_context: returns at once when healing is disabled;  *)
(* otherwise stores a context under item.nodeid, creating the store when   *)
(* it does not exist.  An exception before the store is touched is caught  *)
(* by the outer handler and nothing is stored.                             *)
(***************************************************************************)
NewContext(t, n) == [kind |-> "ctx", test_name |-> ItemName(t), nodeid |-> t,
                     attempt |-> n]

_capture_UnderItemName(t, n, is_enabled, store_exists, store, cap_ok) ==
  IF ~is_enabled \/ ~cap_ok
    THEN [has_store |-> store_exists, store |-> store, saved |-> FALSE]
    ELSE [has_store |-> TRUE,
          store |-> DictPut(store, ItemName(t), NewContext(t, n)),
          saved |-> TRUE]

_capture_ai_healing_context(t, n, is_enabled, store_exists, store, cap_ok) ==
  IF ~is_enabled
    THEN [has_store |-> store_exists, store |-> store, saved |-> FALSE]
    ELSE IF ~cap_ok
      THEN [has_store |-> store_exists, store |-> store, saved |-> FALSE]
      ELSE [has_store |-> TRUE,
            store |-> DictPut(store, t, NewContext(t, n)),
            saved |-> TRUE]

(***************************************************************************)
(* Response texts.  A text is a sequence of characters of a small          *)
(* alphabet in which a word, a number and a code fence are one character:  *)
(*   "{"  "}"  ":"  ","      themselves                                    *)
(*   "q"  a double quote          "_"  white space                         *)
(*   "F"  a code fence (three backticks)    "j"  the word json             *)
(*   "A" "R" "C" "S" "U" "M"  the words analysis, root_cause, confidence,  *)
(*        suggested_fix, updated_test_code, recommendations                *)
(*   "x" "y"  other words                                                  *)
(*   "9"  the number 0.9      "5"  the number 5                            *)
(*   "B"  the digits 1.2.3    "n"  the word null                           *)
(* Numbers are counted in tenths.                                          *)
(***************************************************************************)
IsSpace(c) == c = "_"

\* the characters json.loads reads as a number, with their values
NumberChars == {"9", "5"}

NumValue(c) == IF c = "9" THEN 9 ELSE 50

\* the characters the class [0-9.] matches
DigitChars == NumberChars \cup {"B"}

MinOf(S) == CHOOSE k \in S : \A j \in S : k <= j

MaxOf(S) == CHOOSE k \in S : \A j \in S : k >= j

\* index of the first c in s at or after i, 0 when there is none
NextIdx(s, i, c) ==
  LET S == {k \in i..Len(s) : s[k] = c}
  IN  IF S = {} THEN 0 ELSE MinOf(S)

\* index of the first character at or after i that is no white space
RECURSIVE SkipWs(_, _)
SkipWs(s, i) ==
  IF i <= Len(s) /\ IsSpace(s[i]) THEN SkipWs(s, i + 1) ELSE i

\* str.strip()
Strip(s) ==
  LET S == {k \in 1..Len(s) : ~IsSpace(s[k])}
  IN  IF S = {} THEN <<>> ELSE SubSeq(s, MinOf(S), MaxOf(S))

(***************************************************************************)
(* Python values: None, strings, numbers and dicts.  Every value has the   *)
(* same fields so that any two can be compared.                            *)
(***************************************************************************)
PyNone == [t |-> "none", s |-> <<>>, n |-> 0, o |-> EmptyDict]

PyStr(s) == [t |-> "str", s |-> s, n |-> 0, o |-> EmptyDict]

PyNum(n) == [t |-> "num", s |-> <<>>, n |-> n, o |-> EmptyDict]

PyDict(o) == [t |-> "dict", s |-> <<>>, n |-> 0, o |-> o]

(***************************************************************************)
(* json.loads: a value with white space around it.  A value is a string,   *)
(* a number, null or an object whose members are "key": value, separated   *)
(* by commas; a repeated key keeps its last value.                         *)
(***************************************************************************)
JsonFail == [ok |-> FALSE, val |-> PyNone, next |-> 0]

RECURSIVE JsonValue(_, _)
RECURSIVE JsonMembers(_, _, _)
JsonValue(s, i) ==
  IF i > Len(s) THEN JsonFail
  ELSE IF s[i] = "q"
    THEN LET e == NextIdx(s, i + 1, "q")
         IN  IF e = 0 THEN JsonFail
             ELSE [ok |-> TRUE, val |-> PyStr(SubSeq(s, i + 1, e - 1)),
                   next |-> e + 1]
  ELSE IF s[i] \in NumberChars
    THEN [ok |-> TRUE, val |-> PyNum(NumValue(s[i])), next |-> i + 1]
  ELSE IF s[i] = "n"
    THEN [ok |-> TRUE, val |-> PyNone, next |-> i + 1]
  ELSE IF s[i] = "{"
    THEN LET k == SkipWs(s, i + 1)
         IN  IF k <= Len(s) /\ s[k] = "}"
               THEN [ok |-> TRUE, val |-> PyDict(EmptyDict), next |-> k + 1]
               ELSE JsonMembers(s, k, EmptyDict)
  ELSE JsonFail

JsonMembers(s, i, acc) ==
  IF i > Len(s) \/ s[i] # "q" THEN JsonFail
  ELSE LET ke == NextIdx(s, i + 1, "q")
           c == SkipWs(s, ke + 1)
           v == JsonValue(s, SkipWs(s, c + 1))
           d == SkipWs(s, v.next)
           nacc == DictPut(acc, SubSeq(s, i + 1, ke - 1), v.val)
       IN  IF ke = 0 THEN JsonFail
           ELSE IF c > Len(s) \/ s[c] # ":" THEN JsonFail
           ELSE IF ~v.ok THEN JsonFail
           ELSE IF d > Len(s) THEN JsonFail
           ELSE IF s[d] = "}"
             THEN [ok |-> TRUE, val |-> PyDict(nacc), next |-> d + 1]
           ELSE IF s[d] = ","
             THEN JsonMembers(s, SkipWs(s, d + 1), nacc)
           ELSE JsonFail

json_loads(s) ==
  LET v == JsonValue(s, SkipWs(s, 1))
  IN  IF v.ok /\ SkipWs(s, v.next) = Len(s) + 1
        THEN [ok |-> TRUE, val |-> v.val]
        ELSE [ok |-> FALSE, val |-> PyNone]

(***************************************************************************)
(* The search patterns of _parse_ollama_response.  re.search returns the   *)
(* match with the leftmost start; a lazy .*? ends at the first place from  *)
(* which the rest of the pattern matches.                                  *)
(***************************************************************************)
NoMatch == [found |-> FALSE, group |-> <<>>]

LeftmostShortest(s, M) ==
  IF M = {} THEN NoMatch
  ELSE LET i == MinOf({m[1] : m \in M})
           e == MinOf({m[2] : m \in {x \in M : x[1] = i}})
       IN  [found |-> TRUE, group |-> SubSeq(s, i, e)]

\* Strategy 1: ```json\s*({.*?})\s*```
Strategy1(s) ==
  LET M == {m \in (1..Len(s)) \X (1..Len(s)) :
              /\ m[1] + 1 <= Len(s)
              /\ s[m[1]] = "F" /\ s[m[1] + 1] = "j"
              /\ SkipWs(s, m[1] + 2) <= Len(s)
              /\ s[SkipWs(s, m[1] + 2)] = "{"
              /\ m[2] > SkipWs(s, m[1] + 2)
              /\ s[m[2]] = "}"
              /\ SkipWs(s, m[2] + 1) <= Len(s)
              /\ s[SkipWs(s, m[2] + 1)] = "F"}
      \* the group starts at the brace, not at the fence
      G == {<<SkipWs(s, m[1] + 2), m[2]>> : m \in
              {x \in M : x[1] = MinOf({y[1] : y \in M})}}
  IN  LeftmostShortest(s, G)

\* Strategy 2: ```(.*?)```
Strategy2(s) ==
  LET i == NextIdx(s, 1, "F")
      k == NextIdx(s, i + 1, "F")
  IN  IF i = 0 \/ k = 0 THEN NoMatch
      ELSE [found |-> TRUE, group |-> SubSeq(s, i + 1, k - 1)]

\* the places where {\s*"[^"]+": matches, with the ends of the lazy .*?}
KeyedBraces(s) ==
  {m \in (1..Len(s)) \X (1..Len(s)) :
     LET p == SkipWs(s, m[1] + 1)
         ke == NextIdx(s, p + 1, "q")
     IN  /\ s[m[1]] = "{"
         /\ p <= Len(s) /\ s[p] = "q"
         /\ ke >= p + 2
         /\ ke + 1 <= Len(s) /\ s[ke + 1] = ":"
         /\ m[2] > ke + 1 /\ s[m[2]] = "}"}

Strategy3_FromFirstBrace(s) ==
  LeftmostShortest(s, {m \in (1..Len(s)) \X (1..Len(s)) :
                         s[m[1]] = "{" /\ m[2] > m[1] /\ s[m[2]] = "}"})

\* Strategy 3: ({\s*"[^"]+":.*?})
Strategy3(s) == LeftmostShortest(s, KeyedBraces(s))

\* the candidate handed to json.loads: Strategies 1 to 4 in this order
SelectCandidate(s) ==
  IF Strategy1(s).found THEN Strategy1(s).group
  ELSE IF Strategy2(s).found THEN Strip(Strategy2(s).group)
  ELSE IF Strategy3(s).found THEN Strategy3(s).group
  ELSE Strip(s)

\* Strategy 5: re.sub(r'^[^{]*', '', candidate), then re.sub(r'[^}]*$', '', .)
CleanCandidate(c) ==
  LET a == NextIdx(c, 1, "{")
      R == {k \in a..Len(c) : c[k] = "}"}
  IN  IF a = 0 \/ R = {} THEN <<>> ELSE SubSeq(c, a, MaxOf(R))

\* "<key>"\s*:\s*"([^"]*)" : the group of the leftmost match
QuotedField(s, key) ==
  LET M == {m \in (1..Len(s)) \X (1..Len(s)) :
              LET c == SkipWs(s, m[1] + 3)
                  v == SkipWs(s, c + 1)
              IN  /\ m[1] + 2 <= Len(s)
                  /\ s[m[1]] = "q" /\ s[m[1] + 1] = key /\ s[m[1] + 2] = "q"
                  /\ c <= Len(s) /\ s[c] = ":"
                  /\ v <= Len(s) /\ s[v] = "q"
                  /\ m[2] = NextIdx(s, v + 1, "q") /\ m[2] # 0}
      G == {<<SkipWs(s, SkipWs(s, m[1] + 3) + 1) + 1, m[2] - 1>> : m \in
              {x \in M : x[1] = MinOf({y[1] : y \in M})}}
  IN  LeftmostShortest(s, G)

\* the longest run of characters of [0-9.] that starts at i
RECURSIVE DigitRun(_, _)
DigitRun(s, i) ==
  IF i <= Len(s) /\ s[i] \in DigitChars
    THEN <<s[i]>> \o DigitRun(s, i + 1)
    ELSE <<>>

\* "confidence"\s*:\s*([0-9.]+) : the group of the leftmost match
ConfidenceField(s) ==
  LET M == {i \in 1..Len(s) :
              LET c == SkipWs(s, i + 3)
                  v == SkipWs(s, c + 1)
              IN  /\ i + 2 <= Len(s)
                  /\ s[i] = "q" /\ s[i + 1] = "C" /\ s[i + 2] = "q"
                  /\ c <= Len(s) /\ s[c] = ":"
                  /\ v <= Len(s) /\ s[v] \in DigitChars}
  IN  IF M = {} THEN NoMatch
      ELSE [found |-> TRUE,
            group |-> DigitRun(s, SkipWs(s, SkipWs(s, MinOf(M) + 3) + 1))]

\* float(text): a single number, anything else raises ValueError
PyFloat(run) ==
  IF Len(run) = 1 /\ run[1] \in NumberChars
    THEN [raised |-> FALSE, val |-> PyNum(NumValue(run[1]))]
    ELSE [raised |-> TRUE, val |-> PyNone]

\* response_text[:500]
AnalysisLimit == 500

Prefix(s, n) == SubSeq(s, 1, IF Len(s) < n THEN Len(s) ELSE n)

\* the default confidences of Strategy 6 and of the final fallback, 0.3 and
\* 0.2, in tenths
ManualConfidence == 3

FallbackConfidence == 2

Key(c) == <<c>>

\* Strategy 6: the fields found by pattern in the whole response text
ManualParse(s) ==
  LET analysis == QuotedField(s, "A")
      root_cause == QuotedField(s, "R")
      confidence == ConfidenceField(s)
      number == PyFloat(confidence.group)
  IN  IF confidence.found /\ number.raised
        THEN [raised |-> TRUE, val |-> PyNone]
        ELSE [raised |-> FALSE,
              val |-> PyDict(
                Key("A") :> (IF analysis.found THEN PyStr(analysis.group)
                             ELSE PyStr(Prefix(s, AnalysisLimit)))
                @@ Key("R") :> (IF root_cause.found
                                  THEN PyStr(root_cause.group)
                                  ELSE PyStr(<<"could_not_extract">>))
                @@ Key("C") :> (IF confidence.found THEN number.val
                                ELSE PyNum(ManualConfidence))
                @@ Key("S") :> PyStr(<<"manual_review_json_parsing_failed">>)
                @@ Key("M") :> PyStr(<<"check_model_output_format">>))]

\* the final fallback: the raw response in structured form
FinalFallback(s) ==
  PyDict(Key("A") :> PyStr(s)
         @@ Key("R") :> PyStr(<<"could_not_parse">>)
         @@ Key("C") :> PyNum(FallbackConfidence)
         @@ Key("S") :> PyStr(<<"manual_review_response_parsing_failed">>)
         @@ Key("M") :> PyStr(<<"consider_another_model">>)
         @@ Key("raw_unparsed_response") :> PyStr(s))

(***************************************************************************)
(* OllamaAIHealingService._parse_ollama_response                           *)
(***************************************************************************)
_parse_ollama_response(s) ==
  LET candidate == SelectCandidate(s)
      first == json_loads(candidate)
      cleaned == CleanCandidate(candidate)
      second == json_loads(cleaned)
      manual == ManualParse(s)
  IN  IF s = <<>> THEN PyNone
      ELSE IF first.ok THEN first.val
      ELSE IF cleaned # <<>> /\ second.ok THEN second.val
      ELSE IF ~manual.raised THEN manual.val
      ELSE FinalFallback(s)

(***************************************************************************)
(* The response texts the parser is run on.  An object is written as the   *)
(* prompt asks for it: "key": value members separated by a comma and       *)
(* white space.  No text holds two numbers next to each other.             *)
(***************************************************************************)
RenderValue(v) ==
  IF v.t = "str" THEN <<"q">> \o v.s \o <<"q">>
  ELSE IF v.t = "num" THEN <<CHOOSE c \in NumberChars : NumValue(c) = v.n>>
  ELSE <<"n">>

RECURSIVE RenderMembers(_)
RenderMembers(pairs) ==
  IF pairs = <<>> THEN <<>>
  ELSE <<"q", pairs[1].k, "q", ":", "_">> \o RenderValue(pairs[1].v)
         \o (IF Len(pairs) > 1 THEN <<",", "_">> \o RenderMembers(Tail(pairs))
                               ELSE <<>>)

RenderObject(pairs) == <<"{">> \o RenderMembers(pairs) \o <<"}">>

\* the dict a list of members with distinct keys stands for
DictOf(pairs) ==
  PyDict([key \in {Key(pairs[i].k) : i \in DOMAIN pairs} |->
            pairs[CHOOSE i \in DOMAIN pairs : Key(pairs[i].k) = key].v])

\* the sub-sequences of a sequence
SubLists(seq) ==
  {[i \in 1..Cardinality(I) |->
      seq[CHOOSE j \in I : Cardinality({m \in I : m <= j}) = i]] :
     I \in SUBSET (DOMAIN seq)}

\* values of text fields; the last two are what updated_test_code looks
\* like: code with braces, code inside a code fence
PlainTexts == {<<"x">>, <<"x", "_", "y">>}

CodeTexts == PlainTexts \cup {<<"x", "_", "{", "y", "}">>,
                              <<"F", "x", "_", "y", "F">>,
                              <<"x", ":", "_", "y", ",">>}

Confidences == {9, 50}

\* an object with the six fields of the schema
SchemaObject(analysis, confidence, code) ==
  <<[k |-> "A", v |-> PyStr(analysis)], [k |-> "R", v |-> PyStr(<<"y">>)],
    [k |-> "C", v |-> PyNum(confidence)],
    [k |-> "S", v |-> PyStr(<<"x", "_", "y">>)],
    [k |-> "U", v |-> PyStr(code)], [k |-> "M", v |-> PyStr(<<"y">>)]>>

SchemaObjects ==
  {SchemaObject(a, c, u) : a \in PlainTexts, c \in Confidences,
                           u \in CodeTexts}

\* flat objects: some of the fields, no brace and no fence in a value
FlatObjects ==
  SubLists(<<[k |-> "A", v |-> PyStr(<<"x", "_", "y">>)],
             [k |-> "C", v |-> PyNum(9)],
             [k |-> "R", v |-> PyStr(<<"y">>)],
             [k |-> "U", v |-> PyStr(<<"x">>)]>>) \ {<<>>}

Proses == {<<"x">>, <<"x", "_", "y", "_">>, <<"x", "_", "{", "y", "}", "_">>,
           <<"x", "_", "q", "y", "q", ":", "_">>, <<"x", "{", "_">>}

ProseThenFlat == {p \o RenderObject(o) : p \in Proses, o \in FlatObjects}

Fenced ==
  {pre \o open \o RenderObject(o) \o close \o post :
     pre \in {<<>>, <<"x", "_">>}, open \in {<<"F", "j", "_">>, <<"F", "_">>},
     o \in {<<[k |-> "A", v |-> PyStr(<<"x">>)]>>,
            SchemaObject(<<"x">>, 9, <<"x">>),
            SchemaObject(<<"x">>, 9, <<"x", "_", "{", "y", "}">>)},
     close \in {<<"_", "F">>, <<>>}, post \in {<<>>, <<"_", "y">>}}

Scalars == {<<"9">>, <<"5">>, <<"n">>, <<"q", "x", "q">>, <<"_", "9", "_">>}

Malformed ==
  {<<"_">>, <<"x">>, <<"x", "_", "y">>, <<"{">>, <<"}">>, <<"{", "x", "}">>,
   <<"{", "q", "C", "q", ":", "_", "B", "}">>,
   <<"{", "q", "C", "q", ":", "_", "9", ",", "}">>,
   <<"{", "q", "C", "q", ":", "_", "5", ",", "}">>,
   <<"q", "A", "q", ":", "_", "q", "x", "q", "_", "q", "R", "q", ":", "q",
     "y", "q">>}
    \cup {SubSeq(RenderObject(o), 1, Len(RenderObject(o)) - 1) :
            o \in FlatObjects}

\* fenced blocks that are not JSON, with and without the json tag
BadFences == {<<"F", "j", "_", "{", "x", "}", "_", "F", "_">>,
              <<"F", "_", "x", "_", "F", "_">>}

BadFenceThenFlat ==
  {f \o RenderObject(o) : f \in BadFences, o \in FlatObjects}

ResponseTexts ==
  {<<>>} \cup {RenderObject(o) : o \in SchemaObjects} \cup ProseThenFlat
    \cup {RenderObject(o) : o \in FlatObjects} \cup Fenced \cup Scalars
    \cup Malformed \cup BadFenceThenFlat

(***************************************************************************)
(* OllamaAIHealingService._query_ollama: the response text of              *)
(* client.generate, None when the call raises.  ReplyText is a response    *)
(* text of each shape ("e" stands for the word error).                     *)
(***************************************************************************)
ReplyText(gen) ==
  CASE gen = "empty"               -> <<>>
    [] gen = "json_null"           -> <<"n">>
    [] gen = "json_nonobject"      -> <<"9">>
    [] gen = "json_error_object"   ->
         <<"{", "q", "e", "q", ":", "_", "q", "x", "q", "}">>
    [] gen = "json_object_code"    ->
         <<"{", "q", "C", "q", ":", "_", "9", ",", "_",
           "q", "U", "q", ":", "_", "q", "x", "q", "}">>
    [] gen = "json_object_nocode"  ->
         <<"{", "q", "C", "q", ":", "_", "9", "}">>
    [] gen = "json_object_badconf" ->
         <<"{", "q", "C", "q", ":", "_", "q", "x", "q", ",", "_",
           "q", "U", "q", ":", "_", "q", "x", "q", "}">>
    [] gen = "prose"               -> <<"x", "_", "y">>

\* no generate call was made
NotCalled ==
  [gen |-> "none",
   raw |-> [t |-> "not_called", s |-> <<>>, n |-> 0, o |-> EmptyDict],
   write |-> "ok"]

_query_ollama(gen) ==
  IF gen = "transport_error" THEN PyNone ELSE PyStr(ReplyText(gen))

(***************************************************************************)
(* OllamaAIHealingService.call_ollama_healing: one generate call; the      *)
(* result is always a dict, an error dict when there is no response text,  *)
(* when the text parses to None, or when the parsed value is no dict.      *)
(***************************************************************************)
ErrorDict == [keys |-> {"error"}, code |-> FALSE, conf_ok |-> TRUE]

ResultDict(code, conf_ok) ==
  [keys |-> {"analysis", "root_cause", "confidence", "raw_ollama_response"}
              \cup (IF code THEN {"updated_test_code"} ELSE {}),
   code |-> code, conf_ok |-> conf_ok]

call_ollama_healing_EmptyAnswered(gen) ==
  IF gen \in {"transport_error", "empty"}
    THEN ResultDict(TRUE, TRUE)
    ELSE ErrorDict

call_ollama_healing(gen) ==
  CASE gen = "transport_error"     -> ErrorDict
    [] gen = "empty"               -> ErrorDict
    [] gen = "json_null"           -> ErrorDict
    [] gen = "json_nonobject"      -> ErrorDict
    [] gen = "json_error_object"   ->
         [keys |-> {"error", "raw_ollama_response"}, code |-> FALSE,
          conf_ok |-> TRUE]
    [] gen = "json_object_code"    -> ResultDict(TRUE, TRUE)
    [] gen = "json_object_nocode"  -> ResultDict(FALSE, TRUE)
    [] gen = "json_object_badconf" -> ResultDict(TRUE, FALSE)
    [] gen = "prose"               -> ResultDict(FALSE, TRUE)

(***************************************************************************)
(* OllamaAIHealingService.generate_healing_report: the report text is      *)
(* formatted (the confidence with a numeric format), the report is         *)
(* written, then the candidate when updated_test_code is non-empty.        *)
(***************************************************************************)
generate_healing_report(ai_response, write) ==
  IF ~ai_response.conf_ok \/ write = "fail_report"
    THEN [raised |-> TRUE, events |-> <<>>]
    ELSE IF ~ai_response.code
      THEN [raised |-> FALSE, events |-> <<"write_report">>]
      ELSE IF write = "fail_candidate"
        THEN [raised |-> TRUE, events |-> <<"write_report">>]
        ELSE [raised |-> FALSE,
              events |-> <<"write_report", "write_candidate">>]

(***************************************************************************)
(* The guards of the healing section of the hook.                          *)
(***************************************************************************)
\* if not _ollama_service.enabled: return
SkipWhenDisabled_Never(is_enabled) == FALSE

SkipWhenDisabled(is_enabled) == ~is_enabled

\* context_data = store.get(test_key), and store.get(item.name) when that
\* is falsy; evaluated only when the store attribute exists
LookupContext(store, t) ==
  IF Truthy(DictGet(store, t)) THEN DictGet(store, t)
                               ELSE DictGet(store, ItemName(t))

ShouldCallModel_NoContextCheck(context_data, is_enabled) == is_enabled

\* if context_data and _ollama_service.enabled:
ShouldCallModel(context_data, is_enabled) == Truthy(context_data) /\ is_enabled

\* if test_key in store: del store[test_key]; the same for item.name
CleanupContexts(store, t) == DictDel(DictDel(store, t), ItemName(t))

\* with _ai_healing_lock: if test_key in counts: del counts[test_key]
DeleteCount(counts, t) == DictDel(counts, t)

(***************************************************************************)
(* The try block of the hook: model call, checks of the answer, report,    *)
(* clean-up.  "returned" tells that the hook returned from inside it.      *)
(***************************************************************************)
HealingTry(t, store, env) ==
  LET ai_response == call_ollama_healing(env.gen)
      report == generate_healing_report(ai_response, env.write)
      called == [gen |-> env.gen, raw |-> _query_ollama(env.gen),
                 write |-> env.write]
  IN  IF ai_response.keys = {}
        THEN [returned |-> TRUE, store |-> store, events |-> <<"model_call">>,
              model |-> called]
        ELSE IF "error" \in ai_response.keys \/ "error_type" \in ai_response.keys
          THEN [returned |-> TRUE, store |-> store,
                events |-> <<"model_call">>, model |-> called]
          ELSE IF report.raised
            THEN [returned |-> FALSE, store |-> store,
                  events |-> <<"model_call", "emit_report">> \o report.events
                               \o <<"except">>,
                  model |-> called]
            ELSE [returned |-> FALSE, store |-> CleanupContexts(store, t),
                  events |-> <<"model_call", "emit_report">> \o report.events
                               \o <<"cleanup_context">>,
                  model |-> called]

(***************************************************************************)
(* The part of the hook after context capture: the finality check and the  *)
(* healing section.  counts, store_exists and store are the values after   *)
(* the increment and the capture.                                          *)
(***************************************************************************)
HealingSection(t, fail_count, counts, store_exists, store, env) ==
  LET base == [fail_counts |-> counts, has_store |-> store_exists,
               pending_contexts |-> store, ollama_checked |-> ollama_checked,
               class |-> "final", raised |-> FALSE,
               events |-> <<"finality_check">>, model |-> NotCalled]
      svc == ensure_ollama_running(ollama_checked, env)
      checked == [base EXCEPT !.ollama_checked = svc.checked,
                              !.events = @ \o svc.events]
      context_data == LookupContext(store, t)
      try == HealingTry(t, store, env)
  IN  IF ~IsFinalFailure(fail_count, MaxRerunsOf(reruns_opt))
        THEN [base EXCEPT !.class = "retry"]
      ELSE IF SkipWhenDisabled(enabled)
        THEN base
      ELSE IF ~svc.result
        THEN checked
      ELSE IF ~store_exists
        \* context_data was never assigned: UnboundLocalError
        THEN [checked EXCEPT !.raised = TRUE, !.events = @ \o <<"raise">>]
      ELSE IF ~ShouldCallModel(context_data, enabled)
        THEN [checked EXCEPT !.fail_counts = DeleteCount(counts, t),
                             !.events = @ \o <<"lookup", "delete_counter">>]
      ELSE IF try.returned
        THEN [checked EXCEPT !.events = @ \o <<"lookup">> \o try.events,
                             !.model = try.model]
      ELSE [checked EXCEPT !.fail_counts = DeleteCount(counts, t),
                           !.pending_contexts = try.store,
                           !.model = try.model,
                           !.events = @ \o <<"lookup">> \o try.events
                                        \o <<"delete_counter">>]

HookOnCallFailure_CaptureLast(t, n, env) ==
  LET counts == IncrementCount(fail_counts, t)
      fail_count == counts[t]
      sec == HealingSection(t, fail_count, counts, has_store,
                            pending_contexts, env)
      cap == _capture_ai_healing_context(t, n, enabled, sec.has_store,
                                         sec.pending_contexts, env.cap_ok)
  IN  [fail_counts |-> sec.fail_counts, has_store |-> cap.has_store,
       pending_contexts |-> cap.store,
       ollama_checked |-> sec.ollama_checked,
       hook |-> [test |-> t, when |-> "call", failed |-> TRUE,
                 fail_count |-> fail_count, class |-> sec.class,
                 cap_ok |-> env.cap_ok, saved |-> cap.saved,
                 store_keys |-> DOMAIN pending_contexts,
                 events |-> <<"increment">> \o sec.events \o <<"capture">>
                              \o (IF cap.saved THEN <<"context_saved">>
                                               ELSE <<>>),
                 raised |-> sec.raised, model |-> sec.model]]

(***************************************************************************)
(* pytest_runtest_makereport for a failed call-phase report of item t:     *)
(* increment and read the counter, capture the context, then the finality  *)
(* check and the healing section.                                          *)
(***************************************************************************)
HookOnCallFailure(t, n, env) ==
  LET counts == IncrementCount(fail_counts, t)
      fail_count == counts[t]
      cap == _capture_ai_healing_context(t, n, enabled, has_store,
                                         pending_contexts, env.cap_ok)
      sec == HealingSection(t, fail_count, counts, cap.has_store, cap.store,
                            env)
  IN  [fail_counts |-> sec.fail_counts, has_store |-> sec.has_store,
       pending_contexts |-> sec.pending_contexts,
       ollama_checked |-> sec.ollama_checked,
       hook |-> [test |-> t, when |-> "call", failed |-> TRUE,
                 fail_count |-> fail_count, class |-> sec.class,
                 cap_ok |-> env.cap_ok, saved |-> cap.saved,
                 store_keys |-> DOMAIN cap.store,
                 events |-> <<"increment", "capture">>
                              \o (IF cap.saved THEN <<"context_saved">>
                                               ELSE <<>>)
                              \o sec.events,
                 raised |-> sec.raised, model |-> sec.model]]

\* a report the hook only attaches to the item (setattr at line 365)
HookNoAction(t, when, failed) ==
  [test |-> t, when |-> when, failed |-> failed, fail_count |-> 0,
   class |-> "none", cap_ok |-> TRUE, saved |-> FALSE, store_keys |-> {},
   events |-> <<>>,
   raised |-> FALSE, model |-> NotCalled]

(***************************************************************************)
(* The files the hook touches.  A path is a directory, the name the file   *)
(* name is built from and the kind of file.                                *)
(***************************************************************************)
\* item.fspath, the file that defines the failing test
TestFile(t) == [dir |-> "tests", base |-> t, kind |-> "source"]

\* screenshots/{nodeid}_{timestamp}.png
ScreenshotPath(t) == [dir |-> "screenshots", base |-> t, kind |-> "png"]

\* ai_healing_reports/{test_name}_{timestamp}_ollama_analysis.md
ReportPath(t) ==
  [dir |-> "ai_healing_reports", base |-> ItemName(t), kind |-> "analysis"]

CandidatePath_OverOriginal(t) == TestFile(t)

\* ai_healing_reports/{test_name}_{timestamp}_ollama_healed.py
CandidatePath(t) ==
  [dir |-> "ai_healing_reports", base |-> ItemName(t), kind |-> "healed"]

\* the file operations behind an event of the hook: a saved context has
\* read the test file and, with a page, written a screenshot; the other
\* events touch no file
FileOpsOf(t, e) ==
  CASE e = "context_saved"   -> {[op |-> "read", path |-> TestFile(t)],
                                 [op |-> "write", path |-> ScreenshotPath(t)]}
    [] e = "write_report"    -> {[op |-> "write", path |-> ReportPath(t)]}
    [] e = "write_candidate" -> {[op |-> "write", path |-> CandidatePath(t)]}
    [] OTHER                 -> {}

FileOps(t, events) ==
  UNION {FileOpsOf(t, events[i]) : i \in 1..Len(events)}

service_vars == <<fail_counts, has_store, pending_contexts, ollama_checked>>

(***************************************************************************)
(* The decorators.  A test function returns a value or raises; Exception   *)
(* subclasses are caught by the wrappers, other BaseException subclasses   *)
(* (the runner's own outcome exceptions, interrupts) are not.              *)
(***************************************************************************)
Values == {"v1", "v2"}

Exceptions == {"E1", "E2"}

BaseExceptions == {"B1"}

\* the exception a failing capture raises
CaptureError == "H1"

Outcomes == [kind : {"return"}, val : Values]
              \cup [kind : {"raise"}, val : Exceptions \cup BaseExceptions]

\* capture_failure_context and the code that stores its result:
\*   ok     every sub-capture succeeds
\*   inner  a page call raises inside capture_failure_context, which records
\*          it as capture_error and returns the context
\*   outer  an exception reaches the wrapper's handler; nothing is stored
CaptureKinds == {"ok", "inner", "outer"}

\* test_key = f"{module_path}::{func.__name__}", built to match item.nodeid
DecoratorKey(t) == t

DecoratorContext(t, exc, cap) ==
  [kind |-> "ctx", test_name |-> ItemName(t), error_message |-> exc,
   capture_error |-> (cap = "inner")]

NoStore == [exists |-> FALSE, dict |-> EmptyDict]

(***************************************************************************)
(* ai_healing.wrapper (utils/ai_healing_decorator.py; the wrapper of       *)
(* utils/ai_healing.py has the same text).                                 *)
(***************************************************************************)
ReRaise_HealingError(exc) == [kind |-> "raise", val |-> CaptureError]

\* raise exc, at the end of the handler
ReRaise(exc) == [kind |-> "raise", val |-> exc]

ai_healing_wrapper(t, is_enabled, outcome, cap, store) ==
  IF ~is_enabled
    THEN [result |-> outcome, store |-> store, events |-> <<"func">>]
  ELSE IF outcome.kind = "return" \/ outcome.val \notin Exceptions
    THEN [result |-> outcome, store |-> store, events |-> <<"func">>]
  ELSE IF cap = "outer"
    THEN [result |-> ReRaise(outcome.val), store |-> store,
          events |-> <<"func", "capture", "capture_failed">>]
    ELSE [result |-> ReRaise(outcome.val),
          store |-> [exists |-> TRUE,
                     dict |-> DictPut(store.dict, DecoratorKey(t),
                                      DecoratorContext(t, outcome.val, cap))],
          events |-> <<"func", "capture", "context_saved">>]

(***************************************************************************)
(* screenshot_on_failure.wrapper (utils/screenshot_decorator.py).          *)
(* shot is the outcome of the screenshot and its attachment.               *)
(***************************************************************************)
ReRaiseAfterShot(exc) == [kind |-> "raise", val |-> exc]

screenshot_wrapper(outcome, page, skip, shot_ok) ==
  IF outcome.kind = "return" \/ outcome.val \notin Exceptions
    THEN [result |-> outcome, events |-> <<"func">>]
  ELSE IF page /\ ~skip
    THEN [result |-> ReRaiseAfterShot(outcome.val),
          events |-> <<"func">> \o (IF shot_ok THEN <<"screenshot">>
                                               ELSE <<"screenshot_failed">>)]
    ELSE [result |-> ReRaiseAfterShot(outcome.val),
          events |-> <<"func">>]

NoWrap == [decorator |-> "none", test |-> TestIds[1],
           outcome |-> [kind |-> "return", val |-> "v1"],
           result |-> [kind |-> "return", val |-> "v1"],
           cap |-> "ok", events |-> <<>>]

RunAiHealingWrapped ==
  \E t \in Tests, outcome \in Outcomes, cap \in CaptureKinds :
    LET r == ai_healing_wrapper(t, enabled, outcome, cap, deco_contexts)
    IN  /\ deco_contexts' = r.store
        /\ wrap' = [decorator |-> "ai_healing", test |-> t,
                    outcome |-> outcome, result |-> r.result, cap |-> cap,
                    events |-> r.events]
        /\ UNCHANGED <<enabled, reruns_opt, item_reruns, service_vars, cur,
                       phase, execution_count, attempt_failed, call_failures,
                       hook, aux_vars>>

RunScreenshotWrapped ==
  \E t \in Tests, outcome \in Outcomes, page \in BOOLEAN, skip \in BOOLEAN,
     shot_ok \in BOOLEAN :
    LET r == screenshot_wrapper(outcome, page, skip, shot_ok)
    IN  /\ wrap' = [decorator |-> "screenshot_on_failure", test |-> t,
                    outcome |-> outcome, result |-> r.result,
                    cap |-> IF shot_ok THEN "ok" ELSE "outer",
                    events |-> r.events]
        /\ UNCHANGED <<enabled, reruns_opt, item_reruns, service_vars, cur,
                       phase, execution_count, attempt_failed, call_failures,
                       hook, deco_contexts, aux_vars>>

\* parsed before _parse_ollama_response has returned
NotParsed == [t |-> "pending", s |-> <<>>, n |-> 0, o |-> EmptyDict]

\* the variables of the hook, the runner and the decorators
main_vars == <<enabled, reruns_opt, item_reruns, service_vars, cur, phase,
               execution_count, attempt_failed, call_failures, hook,
               deco_contexts, wrap>>

ParseResponse ==
  /\ parsed = NotParsed
  /\ parsed' = _parse_ollama_response(response_text)
  /\ UNCHANGED <<main_vars, perf, lk, response_text, capture, gw>>

(***************************************************************************)
(* Context capture in detail.  A page call succeeds or raises; the page    *)
(* DOM is known by its length, and a stored DOM by the number of leading   *)
(* characters kept and whether the marker "..." follows them.              *)
(***************************************************************************)
\* dom_content[:5000] and len(dom_content) > 5000
DomLimit == 5000

\* len("...")
MarkerLen == 3

DomLengths == {0, 1, DomLimit - 1, DomLimit, DomLimit + 1,
               DomLimit + MarkerLen, 2 * DomLimit}

\* how the calls on the page answer: title is "ok", "empty" (an empty
\* string) or "raises"
PageBehaviours ==
  [url_ok : BOOLEAN, title : {"ok", "empty", "raises"}, shot_ok : BOOLEAN,
   dom_ok : BOOLEAN, dom_len : DomLengths]

NoDom == [kept |-> 0, marker |-> FALSE]

\* s[:n] of a text of length len
SliceLen(len, n) == IF len < n THEN len ELSE n

TruncateDom_AtLimit(len) ==
  IF len >= DomLimit THEN [kept |-> SliceLen(len, DomLimit), marker |-> TRUE]
                     ELSE [kept |-> len, marker |-> FALSE]

\* dom_content[:5000] + "..." if len(dom_content) > 5000 else dom_content
TruncateDom(len) ==
  IF len > DomLimit THEN [kept |-> SliceLen(len, DomLimit), marker |-> TRUE]
                    ELSE [kept |-> len, marker |-> FALSE]

StoredLength(dom) == dom.kept + (IF dom.marker THEN MarkerLen ELSE 0)

\* a context: the names of its fields, and the values of those the
\* properties speak of
AddFields(context, names) == [context EXCEPT !.fields = @ \cup names]

(***************************************************************************)
(* OllamaAIHealingService.capture_failure_context: one try block around    *)
(* URL and title, screenshot and DOM; the handler records capture_error.   *)
(* The second result tells whether screenshot_path is not None.            *)
(***************************************************************************)
capture_failure_context(t, exc, page, pg) ==
  LET base == [fields |-> {"test_name", "error_message", "error_type",
                           "test_docstring"},
               test_name |-> ItemName(t), error_message |-> exc,
               dom |-> NoDom]
  IN  IF ~page
        THEN [context |-> base, screenshot_path |-> FALSE]
      ELSE IF ~pg.url_ok \/ pg.title = "raises"
        THEN [context |-> AddFields(base, {"capture_error"}),
              screenshot_path |-> FALSE]
      ELSE IF ~pg.shot_ok
        THEN [context |-> AddFields(base, {"url", "title", "capture_error"}),
              screenshot_path |-> TRUE]
      ELSE IF ~pg.dom_ok
        THEN [context |-> AddFields(base, {"url", "title", "screenshot_path",
                                           "capture_error"}),
              screenshot_path |-> TRUE]
      ELSE [context |-> [AddFields(base, {"url", "title", "screenshot_path",
                                          "dom"})
                           EXCEPT !.dom = TruncateDom(pg.dom_len)],
            screenshot_path |-> TRUE]

(***************************************************************************)
(* The page part of _capture_ai_healing_context: screenshot and title in   *)
(* one guarded block, then the context, to which URL, title and viewport   *)
(* are added when there is a page and a non-empty title.                   *)
(***************************************************************************)
HookPageContext(t, exc, page, pg) ==
  LET base == [fields |-> {"test_name", "test_file", "error_message",
                           "timestamp", "browser", "headless", "ollama_host",
                           "ollama_model"},
               test_name |-> ItemName(t), error_message |-> exc,
               dom |-> NoDom]
      page_title == page /\ pg.shot_ok /\ pg.title = "ok"
  IN  [context |-> IF page_title
                     THEN AddFields(base, {"current_url", "page_title",
                                           "viewport_size"})
                     ELSE base,
       screenshot_path |-> page]

NoCapture ==
  [kind |-> "none", test |-> TestIds[1], page |-> FALSE,
   pg |-> [url_ok |-> TRUE, title |-> "ok", shot_ok |-> TRUE,
           dom_ok |-> TRUE, dom_len |-> 0],
   context |-> [fields |-> {}, test_name |-> "", error_message |-> "",
                dom |-> NoDom],
   screenshot_path |-> FALSE]

\* the page behaviours that can make a difference: one when there is no page
PagesFor(page) == IF page THEN PageBehaviours ELSE {NoCapture.pg}

CaptureInDecorator ==
  \E t \in Tests, exc \in Exceptions, page \in BOOLEAN :
    \E pg \in PagesFor(page) :
    LET r == capture_failure_context(t, exc, page, pg)
    IN  /\ capture' = [kind |-> "decorator", test |-> t, page |-> page,
                       pg |-> pg, context |-> r.context,
                       screenshot_path |-> r.screenshot_path]
        /\ UNCHANGED <<main_vars, perf, lk, response_text, parsed, gw>>

CaptureInHook ==
  \E t \in Tests, exc \in {"E1"}, page \in BOOLEAN :
    \E pg \in PagesFor(page) :
    LET r == HookPageContext(t, exc, page, pg)
    IN  /\ capture' = [kind |-> "hook", test |-> t, page |-> page,
                       pg |-> pg, context |-> r.context,
                       screenshot_path |-> r.screenshot_path]
        /\ UNCHANGED <<main_vars, perf, lk, response_text, parsed, gw>>

(***************************************************************************)
(* ensure_ollama_running and ensure_ollama_model_loaded step by step.      *)
(* Every request to the service is answered with status 200, with another  *)
(* status, or raises (connection refused, timeout, a body that is no       *)
(* JSON).  Time is counted in seconds since the start of the warm-up.      *)
(***************************************************************************)
\* for i in range(30)
ProbeCount == 30

\* max_wait=180
MaxWait == 180

\* time.sleep(3) after a warm-up request without a real response
WarmupSleep == 3

\* timeout=30 of the warm-up request
GenerateTimeout == 30

Answers == {"200", "non200", "raises"}

\* Model names are sequences of characters: "m" stands for the requested
\* name (llama3.1:8b), "q" for a suffix (-instruct-q4), "o" for the name of
\* another model.
ModelName == <<"m">>

InstalledNames == {<<"m">>, <<"m", "q">>, <<"o">>}

\* model_name in m.get("name", ""): Python's substring test on strings
\* any(... for m in tags)
model_exists(model_name, tags) ==
  \E m \in tags :
    \E i \in 1..(Len(m) - Len(model_name) + 1) :
      SubSeq(m, i, i + Len(model_name) - 1) = model_name

\* GET /api/tags in ensure_ollama_model_loaded: 200 with a list of
\* installed models, another status, an exception
ListAnswers ==
  [kind : {"200"}, tags : SUBSET InstalledNames]
    \cup [kind : {"non200", "raises"}, tags : {{}}]

\* POST /api/generate during the warm-up: 200 with a non-empty response,
\* 200 with an error or an empty response, another status, an exception
\* at once, an exception after the timeout
WarmAnswers == {"ready", "not_ready", "non200", "raises", "timeout"}

\* the seconds a warm-up request takes, at the least
RequestTime(a) == IF a = "timeout" THEN GenerateTimeout ELSE 0

GwIdle ==
  [pc |-> "idle", i |-> 0, elapsed |-> 0, result |-> FALSE, raised |-> FALSE,
   exe |-> "unknown", launched |-> FALSE, up |-> FALSE, listed |-> "none",
   tags |-> {}, pull |-> "none", warmed |-> FALSE, ready |-> FALSE]

\* return r
Return(g, r) == [g EXCEPT !.pc = "done", !.result = r]

\* the next round of the probe loop
NextProbe(i) == i + 1

ProbesExhausted_FallThrough(g) == [g EXCEPT !.pc = "list"]

\* the else branch of the probe loop: no probe was answered with 200
ProbesExhausted(g) == Return(g, FALSE)

\* while time.time() - start < max_wait
WarmupContinues(elapsed) == elapsed < MaxWait

EnsureEntry_Recheck(checked) == [GwIdle EXCEPT !.pc = "ping"]

\* global _ollama_checked; if _ollama_checked: return True
EnsureEntry(checked) ==
  IF checked THEN Return(GwIdle, TRUE) ELSE [GwIdle EXCEPT !.pc = "ping"]

\* a call of ensure_ollama_running
EnsureCall ==
  /\ gw.pc = "idle"
  /\ gw' = EnsureEntry(ollama_checked)
  /\ UNCHANGED <<main_vars, perf, lk, response_text, parsed, capture>>

\* the first request: any answer leads to the model check, an exception
\* to the start of the service
Ping ==
  /\ gw.pc = "ping"
  /\ \E a \in Answers :
       gw' = [gw EXCEPT !.pc = IF a = "raises" THEN "which" ELSE "list"]
  /\ UNCHANGED <<main_vars, perf, lk, response_text, parsed, capture>>

\* if not shutil.which("ollama"): return False
Which ==
  /\ gw.pc = "which"
  /\ \E found \in BOOLEAN :
       gw' = IF found THEN [gw EXCEPT !.pc = "popen", !.exe = "found"]
                      ELSE Return([gw EXCEPT !.exe = "missing"], FALSE)
  /\ UNCHANGED <<main_vars, perf, lk, response_text, parsed, capture>>

\* subprocess.Popen(["ollama", "serve"]); an exception is caught by the
\* handler of the start block, which returns False
Popen ==
  /\ gw.pc = "popen"
  /\ \E ok \in BOOLEAN :
       gw' = IF ok THEN [gw EXCEPT !.pc = "probe", !.launched = TRUE,
                                    !.i = 0]
                   ELSE Return(gw, FALSE)
  /\ UNCHANGED <<main_vars, perf, lk, response_text, parsed, capture>>

\* one round of the probe loop: 200 breaks out of it, another status goes
\* to the next round at once, an exception after time.sleep(1)
Probe ==
  /\ gw.pc = "probe" /\ gw.i < ProbeCount
  /\ \E a \in Answers :
       gw' = IF a = "200" THEN [gw EXCEPT !.pc = "list", !.up = TRUE]
                          ELSE [gw EXCEPT !.i = NextProbe(@)]
  /\ UNCHANGED <<main_vars, perf, lk, response_text, parsed, capture>>

ProbesDone ==
  /\ gw.pc = "probe" /\ gw.i = ProbeCount
  /\ gw' = ProbesExhausted(gw)
  /\ UNCHANGED <<main_vars, perf, lk, response_text, parsed, capture>>

\* ensure_ollama_model_loaded: the model list
ListModels ==
  /\ gw.pc = "list"
  /\ \E a \in ListAnswers :
       gw' = CASE a.kind = "200" /\ model_exists(ModelName, a.tags) ->
                    [gw EXCEPT !.pc = "warm", !.elapsed = 0,
                               !.listed = "present", !.tags = a.tags]
               [] a.kind = "200" /\ ~model_exists(ModelName, a.tags) ->
                    [gw EXCEPT !.pc = "pull", !.listed = "absent",
                               !.tags = a.tags]
               [] OTHER -> Return([gw EXCEPT !.listed = "failed"], FALSE)
  /\ UNCHANGED <<main_vars, perf, lk, response_text, parsed, capture>>

\* POST /api/pull when the model is not in the list
Pull ==
  /\ gw.pc = "pull"
  /\ \E a \in Answers :
       gw' = IF a = "200"
               THEN [gw EXCEPT !.pc = "warm", !.elapsed = 0, !.pull = "ok"]
               ELSE Return([gw EXCEPT !.pull = "failed"], FALSE)
  /\ UNCHANGED <<main_vars, perf, lk, response_text, parsed, capture>>

\* one round of the warm-up loop; a real response makes
\* ensure_ollama_model_loaded return True, and ensure_ollama_running then
\* sets _ollama_checked and returns True
Warmup ==
  /\ gw.pc = "warm" /\ WarmupContinues(gw.elapsed)
  /\ \E a \in WarmAnswers :
       IF a = "ready"
         THEN /\ gw' = Return([gw EXCEPT !.warmed = TRUE, !.ready = TRUE],
                              TRUE)
              /\ ollama_checked' = TRUE
         ELSE /\ gw' = [gw EXCEPT !.warmed = TRUE,
                                  !.elapsed = @ + RequestTime(a) + WarmupSleep]
              /\ UNCHANGED ollama_checked
  /\ UNCHANGED <<enabled, reruns_opt, item_reruns, fail_counts, has_store,
                 pending_contexts, cur, phase, execution_count,
                 attempt_failed, call_failures, hook, deco_contexts, wrap,
                 response_text, parsed, capture, perf, lk>>

\* the wait budget is used up: return False
WarmupDone ==
  /\ gw.pc = "warm" /\ ~WarmupContinues(gw.elapsed)
  /\ gw' = Return(gw, FALSE)
  /\ UNCHANGED <<main_vars, perf, lk, response_text, parsed, capture>>

\* the caller goes on with the result
EnsureReturn ==
  /\ gw.pc = "done"
  /\ gw' = GwIdle
  /\ UNCHANGED <<main_vars, perf, lk, response_text, parsed, capture>>

(***************************************************************************)
(* The performance monitor (utils/performance_monitor.py) with the         *)
(* enhanced_page and perf_monitor fixtures (tests/conftest.py).  A page    *)
(* shows one document at a time.  A document has its navigation timing,    *)
(* its resource entries and the load state it reaches; the observer sets   *)
(* installed in it are the init scripts that were registered when it was   *)
(* loaded.  Metric values are Python values (None or a number).            *)
(***************************************************************************)
\* the number of clock readings of a test
MaxClock == 2

\* the number of history mutations of a document
MaxRoute == 1

\* page.wait_for_timeout(500) in measure_current_page
SettleMs == 500

\* page.wait_for_timeout(2000) in measure_page_performance
FullSettleMs == 2000

\* performance.timing, the number of resource entries and the load state
\* reached of the documents a navigation can load: a document without
\* resources and a slower one with three, each reaching network
\* quiescence or the load event only
Docs ==
  {d \in [navigationStart : {10}, loadEventEnd : {12, 14},
          resources : {0, 3}, reaches : {"networkidle", "load"}] :
     (d.loadEventEnd = 12) <=> (d.resources = 0)}

\* the empty document of a new page; loadEventEnd is 0 while the load
\* event has not ended
BlankDocs ==
  [navigationStart : {10}, loadEventEnd : {0, 10}, resources : {0},
   reaches : {"networkidle"}]

\* window.webVitalsData.lcp once the observers of the document have run:
\* still null, or the start time of the last entry
LcpValues == {PyNone, PyNum(5)}

\* the fields of PerformanceMetrics, in the order of the dataclass
Fields ==
  <<"url", "timestamp", "page_load_time", "largest_contentful_paint",
    "network_requests", "task_duration">>

NoMetrics == [f \in {Fields[i] : i \in 1..Len(Fields)} |-> PyNone]

NoReturn == [kind |-> "none", value |-> NoMetrics]

\* a new page and PerformanceMonitorAsync(): no init script, an empty
\* history; trace is what the operation in progress has done so far
PerfPages ==
  [enhanced : {FALSE}, init_scripts : {0}, doc : BlankDocs, observers : {0},
   routed : {FALSE}, lcp : {PyNone}, route_id : {0}, now : {0},
   history : {<<>>}, phase : {"test"}, op : {"none"}, navigations : {0},
   waits : {<<>>}, changed : {"none"}, ret : {NoReturn}, files : {{}},
   paths : {<<>>}]

PerfIdle == CHOOSE p \in PerfPages : p.doc.loadEventEnd = 0

\* an operation starts: nothing done yet
Begin(p, op) ==
  [p EXCEPT !.op = op, !.navigations = 0, !.waits = <<>>,
            !.changed = "none", !.ret = NoReturn]

\* the operation raises
Raise(p) == [p EXCEPT !.ret = [kind |-> "raised", value |-> NoMetrics]]

Raised(p) == p.ret.kind = "raised"

\* await page.wait_for_load_state(state) / page.wait_for_timeout(ms)
Waited(p, state, ms) ==
  [p EXCEPT !.waits = Append(@, [wait |-> state, ms |-> ms])]

\* the page's own goto and reload: the page shows a new document d, in
\* which every registered init script runs
Navigate(p, d, lcp) ==
  [p EXCEPT !.doc = d, !.observers = p.init_scripts,
            !.routed = p.enhanced,
            !.lcp = IF p.init_scripts > 0 THEN lcp ELSE PyNone,
            !.route_id = 0,
            !.navigations = @ + 1]

\* await page.add_init_script(web_vitals_script): one more init script for
\* the documents loaded from now on; the document shown is not touched
inject_web_vitals_script(p) == [p EXCEPT !.init_scripts = @ + 1]

\* the metrics object built from the three collections
Metrics(p, url, timestamp) ==
  LET navigation_timing == p.doc
      page_load_time ==
        IF navigation_timing.navigationStart # 0
             /\ navigation_timing.loadEventEnd # 0
          THEN PyNum(navigation_timing.loadEventEnd
                       - navigation_timing.navigationStart)
          ELSE PyNone
      \* window.webVitalsData || {}
      web_vitals_lcp == IF p.observers > 0 THEN p.lcp ELSE PyNone
  IN  [url |-> PyStr(url), timestamp |-> PyNum(timestamp),
       page_load_time |-> page_load_time,
       largest_contentful_paint |-> web_vitals_lcp,
       network_requests |-> PyNum(p.doc.resources),
       task_duration |-> PyNone]

AppendMetrics_Replace(p, m) ==
  [p EXCEPT !.history = <<m>>, !.ret = [kind |-> "record", value |-> m]]

\* self.metrics_history.append(metrics); return metrics
AppendMetrics(p, m) ==
  [p EXCEPT !.history = Append(@, m),
            !.ret = [kind |-> "record", value |-> m]]

\* label or page.url; "u" is the url of the page
Label(label) == IF label # <<>> THEN label ELSE <<"u">>

\* measure_current_page(page, label)
measure_current_page(p, label) ==
  LET timestamp == p.now
      p1 == inject_web_vitals_script([p EXCEPT !.now = @ + 1])
      p2 == IF p1.doc.reaches = "networkidle"
              THEN Waited(p1, "networkidle", 0)
              ELSE Waited(Waited(p1, "networkidle", 0), "load", 0)
      p3 == Waited(p2, "timeout", SettleMs)
  IN  AppendMetrics(p3, Metrics(p3, Label(label), timestamp))

\* goto_with_metrics / reload_with_metrics of the enhanced page; kind is
\* "goto" or "reload"
NavigateWithMetrics(p, kind, d, lcp) ==
  LET p1 == Navigate(p, d, lcp)
      p2 == Waited(p1, "networkidle", 0)
  IN  IF d.reaches # "networkidle"
        THEN Raise(p2)
        ELSE LET m == measure_current_page(Waited(p2, "timeout", SettleMs),
                                           <<kind, ":", "u">>)
             IN  [m EXCEPT !.ret = NoReturn]

\* page.goto / page.reload as a test or the monitor calls it
PageNavigate(p, kind, d, lcp) ==
  IF p.enhanced THEN NavigateWithMetrics(p, kind, d, lcp)
                ELSE Navigate(p, d, lcp)

\* measure_page_performance(page, url)
measure_page_performance(p, d, lcp) ==
  LET timestamp == p.now
      p1 == inject_web_vitals_script([p EXCEPT !.now = @ + 1])
      p2 == PageNavigate(p1, "goto", d, lcp)
      p3 == Waited(p2, "networkidle", 0)
      p4 == Waited(p3, "timeout", FullSettleMs)
  IN  IF Raised(p2) THEN p2
      ELSE IF d.reaches # "networkidle" THEN Raise(p3)
      ELSE AppendMetrics(p4, Metrics(p4, <<"u">>, timestamp))

wait_for_route_change_Raises(p, mutated) ==
  IF mutated THEN [p EXCEPT !.route_id = @ + 1, !.changed = "true"]
             ELSE Raise([p EXCEPT !.changed = "timeout"])

\* wait_for_route_change(page, timeout): the counter changes while the
\* function waits (mutated) or the wait times out
wait_for_route_change(p, mutated) ==
  IF mutated THEN [p EXCEPT !.route_id = @ + 1, !.changed = "true"]
             ELSE [p EXCEPT !.changed = "false"]

\* measure_after_spa_route_change(page, perf_monitor, label)
measure_after_spa_route_change(p, label, mutated) ==
  LET p1 == wait_for_route_change(p, mutated)
  IN  IF Raised(p1) THEN p1
      ELSE measure_current_page(Waited(p1, "timeout", SettleMs),
                                IF label # <<>> THEN label
                                ELSE <<"route", ":", "u">>)

\* isinstance(value, (int, float)) and value is not None
IsNumber(v) == v.t = "num"

\* the two loops of get_average_metrics over a history, from the sums and
\* counts gathered so far
RECURSIVE SumMetrics(_, _)
SumMetrics(history, acc) ==
  IF history = <<>> THEN acc
  ELSE LET metric == Head(history)
           keys == {k \in DOMAIN metric : IsNumber(metric[k])}
           Get(d, k) == IF k \in DOMAIN d THEN d[k] ELSE 0
       IN  SumMetrics(Tail(history),
             [metrics_sum |->
                [k \in (DOMAIN acc.metrics_sum) \cup keys |->
                   Get(acc.metrics_sum, k)
                     + (IF k \in keys THEN metric[k].n ELSE 0)],
              metrics_count |->
                [k \in (DOMAIN acc.metrics_count) \cup keys |->
                   Get(acc.metrics_count, k)
                     + (IF k \in keys THEN 1 ELSE 0)]])

get_average_metrics_OverAll(history) ==
  LET acc == SumMetrics(history, [metrics_sum |-> EmptyDict,
                                  metrics_count |-> EmptyDict])
  IN  [k \in DOMAIN acc.metrics_sum |->
         [num |-> acc.metrics_sum[k], den |-> Len(history)]]

\* get_average_metrics(): the quotient metrics_sum[key] / metrics_count[key]
\* is kept as numerator and denominator
get_average_metrics(history) ==
  IF history = <<>> THEN EmptyDict
  ELSE LET acc == SumMetrics(history, [metrics_sum |-> EmptyDict,
                                       metrics_count |-> EmptyDict])
       IN  [k \in {x \in DOMAIN acc.metrics_sum : acc.metrics_count[x] > 0} |->
              [num |-> acc.metrics_sum[k], den |-> acc.metrics_count[k]]]

\* json.dump of a value: null, a number, a string
JsonCell(v) ==
  [form |-> CASE v.t = "none" -> "null" [] v.t = "num" -> "number"
              [] OTHER -> "string",
   n |-> v.n, s |-> v.s]

\* csv.DictWriter writes None as the empty text and everything else as
\* its str()
CsvCell(v) == [digits |-> v.t = "num", n |-> v.n, s |-> v.s]

\* the files of the perf_monitor fixture
JsonPath == "auto_measured_pages.json"

CsvPath == "auto_measured_pages.csv"

\* open(filepath, 'w') and the content written
WriteFile(p, path, header, rows) ==
  [p EXCEPT !.files = {f \in @ : f.path # path}
                        \cup {[path |-> path, header |-> header,
                               rows |-> rows]}]

\* save_metrics_to_json(filename)
save_metrics_to_json(p) ==
  LET rows == [i \in 1..Len(p.history) |->
                 [k \in DOMAIN p.history[i] |-> JsonCell(p.history[i][k])]]
  IN  [WriteFile(p, JsonPath, <<>>, rows) EXCEPT !.paths = Append(@, JsonPath)]

\* save_metrics_to_csv(filename): the file is written only when the
\* history is not empty, the path is returned in both cases
save_metrics_to_csv(p) ==
  LET fieldnames == Fields
      rows == [i \in 1..Len(p.history) |->
                 [k \in {fieldnames[j] : j \in 1..Len(fieldnames)} |->
                    CsvCell(p.history[i][k])]]
  IN  IF p.history # <<>>
        THEN [WriteFile(p, CsvPath, fieldnames, rows)
                EXCEPT !.paths = Append(@, CsvPath)]
        ELSE [p EXCEPT !.paths = Append(@, CsvPath)]

\* the enhanced_page fixture: one init script, goto and reload wrapped
enhanced_page(p) == [p EXCEPT !.enhanced = TRUE, !.init_scripts = @ + 1]

InTest == perf.phase = "test" /\ perf.now < MaxClock

perf_rest == <<main_vars, response_text, parsed, capture, gw, lk>>

\* the test calls page.goto(url)
TestGoto ==
  /\ InTest
  /\ \E d \in Docs, lcp \in LcpValues :
       perf' = PageNavigate(Begin(perf, "goto"), "goto", d, lcp)
  /\ UNCHANGED perf_rest

\* the test calls page.reload()
TestReload ==
  /\ InTest
  /\ \E d \in Docs, lcp \in LcpValues :
       perf' = PageNavigate(Begin(perf, "reload"), "reload", d, lcp)
  /\ UNCHANGED perf_rest

\* the application changes the route: history.pushState, replaceState or
\* popstate in a document that runs the route-change script
HistoryMutation ==
  /\ InTest
  /\ perf.routed /\ perf.route_id < MaxRoute
  /\ perf' = [Begin(perf, "history") EXCEPT !.route_id = @ + 1]
  /\ UNCHANGED perf_rest

MeasureCurrentPage ==
  /\ InTest
  /\ \E label \in {<<>>, <<"L">>} :
       perf' = measure_current_page(Begin(perf, "measure_current_page"),
                                    label)
  /\ UNCHANGED perf_rest

MeasurePagePerformance ==
  /\ InTest
  /\ \E d \in Docs, lcp \in LcpValues :
       perf' = measure_page_performance(
                 Begin(perf, "measure_page_performance"), d, lcp)
  /\ UNCHANGED perf_rest

MeasureAfterSpaRouteChange ==
  /\ InTest
  /\ \E mutated \in {FALSE, perf.routed} :
       perf' = measure_after_spa_route_change(
                 Begin(perf, "measure_after_spa_route_change"), <<>>,
                 mutated)
  /\ UNCHANGED perf_rest

GetAverageMetrics ==
  /\ perf.phase = "test"
  /\ perf.op # "get_average_metrics"
  /\ perf' = [Begin(perf, "get_average_metrics") EXCEPT
                !.ret = [kind |-> "average",
                         value |-> get_average_metrics(perf.history)]]
  /\ UNCHANGED perf_rest

\* the perf_monitor fixture after the test: both exports
SaveMetrics ==
  /\ perf.phase = "test"
  /\ perf' = [save_metrics_to_csv(save_metrics_to_json(
                Begin(perf, "save_metrics"))) EXCEPT !.phase = "saved"]
  /\ UNCHANGED perf_rest

(***************************************************************************)
(* Workers that run the hook at the same time.  _ai_healing_lock guards    *)
(* the counter section of a failed call report (increment and read) and    *)
(* the deletion of the counter entry at the end of the final-failure       *)
(* branch of the same report.  The increment                               *)
(* _ai_healing_fail_counts[test_key] += 1 is a read of the entry followed  *)
(* by a write of the sum.  Everything else in the hook runs without the    *)
(* lock, each access to shared state a step of its own: the test for the   *)
(* pending-context store, its creation, the insert, the read of            *)
(* _ollama_checked, the requests and the launch of the service, the        *)
(* lookup, the model call with the report and the clean-up.                *)
(***************************************************************************)
\* the hook invocations of a run
MaxReports == 3

Workers == {"w1", "w2"}

\* nobody holds the lock, no worker is in the hook, the service is down;
\* observed lists the counts read by the failure reports since the entry
\* was last deleted; found is what a report's lookup in the
\* pending-context store returned; started and wrote tell that the hook
\* call a worker is in has launched the service, has set _ollama_checked
LkIdle ==
  [holder |-> "none", pc |-> [w \in Workers |-> "idle"],
   key |-> [w \in Workers |-> TestIds[1]], tmp |-> [w \in Workers |-> 0],
   fail_count |-> [w \in Workers |-> 0], observed |-> <<>>, reports |-> 0,
   found |-> [w \in Workers |-> [kind |-> "pending"]],
   service_up |-> FALSE, started |-> [w \in Workers |-> FALSE],
   wrote |-> [w \in Workers |-> FALSE]]

\* the locals of a worker end with its hook call
Settle(l, w) ==
  IF l.pc[w] = "idle"
    THEN [l EXCEPT !.key[w] = LkIdle.key[w], !.tmp[w] = 0,
                   !.fail_count[w] = 0, !.found[w] = LkIdle.found[w],
                   !.started[w] = FALSE, !.wrote[w] = FALSE]
    ELSE l

CanAcquire_Always(holder) == TRUE

\* threading.Lock: acquired only while no thread holds it
CanAcquire(holder) == holder = "none"

lock_rest ==
  <<enabled, reruns_opt, item_reruns, cur, phase, execution_count,
    attempt_failed, call_failures, hook, deco_contexts, wrap, response_text,
    parsed, capture, gw, perf>>

store_vars == <<has_store, pending_contexts>>

\* a worker enters the hook with the failed call report of item t
HookEnter(w) ==
  /\ lk.pc[w] = "idle" /\ lk.reports < MaxReports
  /\ \E t \in Tests :
       lk' = [lk EXCEPT !.pc[w] = "count", !.key[w] = t, !.reports = @ + 1]
  /\ UNCHANGED <<fail_counts, store_vars, ollama_checked, lock_rest>>

\* with _ai_healing_lock:
Acquire(w) ==
  /\ lk.pc[w] \in {"count", "forget"}
  /\ CanAcquire(lk.holder)
  /\ lk' = [lk EXCEPT !.holder = w,
                      !.pc[w] = IF @ = "count" THEN "load" ELSE "delete"]
  /\ UNCHANGED <<fail_counts, store_vars, ollama_checked, lock_rest>>

\* _ai_healing_fail_counts[test_key] += 1, the read
Load(w) ==
  /\ lk.pc[w] = "load"
  /\ lk' = [lk EXCEPT !.tmp[w] = CountOf(fail_counts, lk.key[w]),
                      !.pc[w] = "store"]
  /\ UNCHANGED <<fail_counts, store_vars, ollama_checked, lock_rest>>

\* _ai_healing_fail_counts[test_key] += 1, the write
Store(w) ==
  /\ lk.pc[w] = "store"
  /\ fail_counts' = DictPut(fail_counts, lk.key[w], lk.tmp[w] + 1)
  /\ lk' = [lk EXCEPT !.pc[w] = "read", !.tmp[w] = 0]
  /\ UNCHANGED <<store_vars, ollama_checked, lock_rest>>

\* fail_count = _ai_healing_fail_counts[test_key]
Read(w) ==
  /\ lk.pc[w] = "read"
  /\ LET n == CountOf(fail_counts, lk.key[w])
     IN  lk' = [lk EXCEPT !.fail_count[w] = n,
                          !.observed = Append(@, [key |-> lk.key[w],
                                                  fail_count |-> n]),
                          !.pc[w] = "counted"]
  /\ UNCHANGED <<fail_counts, store_vars, ollama_checked, lock_rest>>

\* _capture_ai_healing_context: if not hasattr(_ollama_service,
\* '_pending_contexts')
CheckStore(w) ==
  /\ lk.pc[w] = "capture"
  /\ lk' = [lk EXCEPT !.pc[w] = IF has_store THEN "insert" ELSE "create"]
  /\ UNCHANGED <<fail_counts, store_vars, ollama_checked, lock_rest>>

\* _ollama_service._pending_contexts = {}
CreateStore(w) ==
  /\ lk.pc[w] = "create"
  /\ has_store' = TRUE
  /\ pending_contexts' = EmptyDict
  /\ lk' = [lk EXCEPT !.pc[w] = "insert"]
  /\ UNCHANGED <<fail_counts, ollama_checked, lock_rest>>

\* _ollama_service._pending_contexts[test_key] = {...}
Insert(w) ==
  /\ lk.pc[w] = "insert"
  /\ pending_contexts' =
       DictPut(pending_contexts, lk.key[w], NewContext(lk.key[w], lk.fail_count[w]))
  /\ lk' = [lk EXCEPT !.pc[w] = "healing"]
  /\ UNCHANGED <<fail_counts, has_store, ollama_checked, lock_rest>>

\* if fail_count > max_reruns: ... ensure_ollama_running(): a failure
\* that is not final leaves the hook; if _ollama_checked: return True
Healing(w) ==
  /\ lk.pc[w] = "healing"
  /\ lk' = Settle([lk EXCEPT !.pc[w] =
              IF ~IsFinalFailure(lk.fail_count[w], MaxRerunsOf(reruns_opt))
                THEN "idle"
                ELSE IF ollama_checked THEN "lookup" ELSE "ping"], w)
  /\ UNCHANGED <<fail_counts, store_vars, ollama_checked, lock_rest>>

\* the first request of ensure_ollama_running: answered when the service
\* is up; otherwise shutil.which("ollama") decides between the start of
\* the service and return False
WorkerPing(w) ==
  /\ lk.pc[w] = "ping"
  /\ \E found \in BOOLEAN :
       lk' = Settle([lk EXCEPT !.pc[w] = IF lk.service_up THEN "load_model"
                                  ELSE IF found THEN "launch" ELSE "idle"], w)
  /\ UNCHANGED <<fail_counts, store_vars, ollama_checked, lock_rest>>

\* subprocess.Popen(["ollama", "serve"]) and the probe loop: the service
\* comes up within the probes or not
WorkerLaunch(w) ==
  /\ lk.pc[w] = "launch"
  /\ \E up \in BOOLEAN :
       lk' = Settle([lk EXCEPT !.started[w] = TRUE,
                        !.service_up = @ \/ up,
                        !.pc[w] = IF up THEN "load_model" ELSE "idle"], w)
  /\ UNCHANGED <<fail_counts, store_vars, ollama_checked, lock_rest>>

\* if not ensure_ollama_model_loaded(): return False;
\* _ollama_checked = True
WorkerLoadModel(w) ==
  /\ lk.pc[w] = "load_model"
  /\ \E ok \in BOOLEAN :
       IF ok THEN /\ ollama_checked' = TRUE
                  /\ lk' = [lk EXCEPT !.wrote[w] = TRUE,
                                      !.pc[w] = "lookup"]
             ELSE /\ lk' = Settle([lk EXCEPT !.pc[w] = "idle"], w)
                  /\ UNCHANGED ollama_checked
  /\ UNCHANGED <<fail_counts, store_vars, lock_rest>>

\* the lookup of the pending context and the guard of the model call
Lookup(w) ==
  /\ lk.pc[w] = "lookup"
  /\ LET context_data == IF has_store
                           THEN LookupContext(pending_contexts, lk.key[w])
                           ELSE NoContext
     IN  lk' = [lk EXCEPT !.found[w] = context_data,
                          !.pc[w] = IF ShouldCallModel(context_data, enabled)
                                      THEN "call" ELSE "forget"]
  /\ UNCHANGED <<fail_counts, store_vars, ollama_checked, lock_rest>>

\* the try block: the model call and the report.  After a written report
\* the entries of the item are deleted from the store; a return inside
\* the block leaves the hook; an exception goes on after the handler
Call(w) ==
  /\ lk.pc[w] = "call"
  /\ \E outcome \in {"report", "return", "raise"} :
       /\ pending_contexts' =
            IF outcome = "report"
              THEN CleanupContexts(pending_contexts, lk.key[w])
              ELSE pending_contexts
       /\ lk' = Settle([lk EXCEPT !.pc[w] = IF outcome = "return" THEN "idle"
                                                           ELSE "forget"], w)
  /\ UNCHANGED <<fail_counts, has_store, ollama_checked, lock_rest>>

\* if test_key in _ai_healing_fail_counts: del ...
Delete(w) ==
  /\ lk.pc[w] = "delete"
  /\ fail_counts' = DeleteCount(fail_counts, lk.key[w])
  /\ lk' = [lk EXCEPT !.observed =
                        SelectSeq(@, LAMBDA o : o.key # lk.key[w]),
                      !.pc[w] = "deleted"]
  /\ UNCHANGED <<store_vars, ollama_checked, lock_rest>>

Release_KeepsLock(w) ==
  /\ lk.pc[w] \in {"counted", "deleted"}
  /\ lk' = Settle([lk EXCEPT !.pc[w] = IF @ = "counted" THEN "capture" ELSE "idle"], w)
  /\ UNCHANGED <<fail_counts, store_vars, ollama_checked, lock_rest>>

\* the end of a with block
Release(w) ==
  /\ lk.pc[w] \in {"counted", "deleted"}
  /\ lk' = Settle([lk EXCEPT !.holder = IF @ = w THEN "none" ELSE @,
                      !.pc[w] = IF @ = "counted" THEN "capture" ELSE "idle"], w)
  /\ UNCHANGED <<fail_counts, store_vars, ollama_checked, lock_rest>>

(***************************************************************************)
(* The runner.  Items run one after the other in collection order.  An     *)
(* attempt reports setup, call (when setup passed) and teardown; the hook  *)
(* sees every report.  A failed attempt is repeated while the attempts     *)
(* made do not exceed the item's rerun budget.                             *)
(***************************************************************************)
Running == cur <= Len(TestIds)

CurTest == TestIds[cur]

runner_vars == <<enabled, reruns_opt, item_reruns, deco_contexts, wrap,
                 aux_vars>>

WillRerun(failed, count, budget) == failed /\ count <= budget

StartAttempt ==
  /\ Running /\ phase = "idle"
  /\ execution_count' = execution_count + 1
  /\ phase' = "setup"
  /\ attempt_failed' = FALSE
  /\ UNCHANGED <<runner_vars, service_vars, cur, call_failures, hook>>

SetupReport ==
  /\ Running /\ phase = "setup"
  /\ \E failed \in BOOLEAN :
       /\ hook' = HookNoAction(CurTest, "setup", failed)
       /\ attempt_failed' = failed
       /\ phase' = IF failed THEN "teardown" ELSE "call"
  /\ UNCHANGED <<runner_vars, service_vars, cur, execution_count,
                 call_failures>>

CallPassReport ==
  /\ Running /\ phase = "call"
  /\ hook' = HookNoAction(CurTest, "call", FALSE)
  /\ phase' = "teardown"
  /\ UNCHANGED <<runner_vars, service_vars, cur, execution_count,
                 attempt_failed, call_failures>>

\* the environments that can make a difference to this report: the service
\* and the model are not contacted when healing is disabled or the count is
\* within the budget, and the service is not probed again once checked
DefaultEnv == [cap_ok |-> TRUE, svc |-> "running", model_ok |-> TRUE,
               gen |-> "transport_error", write |-> "ok"]

EnvsNow ==
  {e \in Envs :
     /\ ~enabled => e = DefaultEnv
     /\ ollama_checked => e.svc = DefaultEnv.svc /\ e.model_ok
     /\ CountOf(fail_counts, CurTest) + 1 <= MaxRerunsOf(reruns_opt) =>
          e = [DefaultEnv EXCEPT !.cap_ok = e.cap_ok]}

CallFailReport ==
  /\ Running /\ phase = "call"
  /\ \E env \in EnvsNow :
       LET r == HookOnCallFailure(CurTest, execution_count, env)
       IN  /\ fail_counts' = r.fail_counts
           /\ has_store' = r.has_store
           /\ pending_contexts' = r.pending_contexts
           /\ ollama_checked' = r.ollama_checked
           /\ hook' = r.hook
           \* an exception leaving the hook aborts the run
           /\ phase' = IF r.hook.raised THEN "crashed" ELSE "teardown"
  /\ attempt_failed' = TRUE
  /\ call_failures' = call_failures + 1
  /\ UNCHANGED <<runner_vars, cur, execution_count>>

TeardownReport ==
  /\ Running /\ phase = "teardown"
  /\ \E failed \in BOOLEAN :
       /\ hook' = HookNoAction(CurTest, "teardown", failed)
       /\ IF WillRerun(attempt_failed \/ failed, execution_count,
                       item_reruns[CurTest])
            THEN /\ phase' = "idle"
                 /\ UNCHANGED <<cur, execution_count, call_failures>>
            ELSE /\ phase' = "idle"
                 /\ cur' = cur + 1
                 /\ execution_count' = 0
                 /\ call_failures' = 0
  /\ attempt_failed' = FALSE
  /\ UNCHANGED <<runner_vars, service_vars>>

\* nothing parsed, nothing captured
AuxIdle ==
  /\ response_text = <<>>
  /\ parsed = NotParsed
  /\ capture = NoCapture
  /\ gw = GwIdle
  /\ perf = PerfIdle
  /\ lk = LkIdle

Init ==
  /\ enabled \in BOOLEAN
  /\ reruns_opt \in {NoneOpt} \cup (0..MaxReruns)
  /\ item_reruns \in {f \in [Tests -> 0..MaxReruns] :
                        \A t \in Tests \ Marked : f[t] = MaxRerunsOf(reruns_opt)}
  /\ fail_counts = EmptyDict
  /\ has_store = FALSE
  /\ pending_contexts = EmptyDict
  /\ ollama_checked = FALSE
  /\ cur = 1
  /\ phase = "idle"
  /\ execution_count = 0
  /\ attempt_failed = FALSE
  /\ call_failures = 0
  /\ hook = HookNoAction(TestIds[1], "none", FALSE)
  /\ deco_contexts = NoStore
  /\ wrap = NoWrap
  /\ AuxIdle

Next ==
  \/ StartAttempt
  \/ SetupReport
  \/ CallPassReport
  \/ CallFailReport
  \/ TeardownReport

Spec == Init /\ [][Next]_vars

(***************************************************************************)
(* Decorated tests on their own: any test function outcome, any outcome    *)
(* of the capture, healing enabled or disabled.                            *)
(***************************************************************************)
WrapNext ==
  \/ RunAiHealingWrapped
  \/ RunScreenshotWrapped

WrapSpec == Init /\ [][WrapNext]_vars

(***************************************************************************)
(* The parser on its own: any of the response texts, parsed once.          *)
(***************************************************************************)
\* no test is running: healing enabled, no rerun option, empty stores
MainIdle ==
  /\ enabled = TRUE
  /\ reruns_opt = NoneOpt
  /\ item_reruns = [t \in Tests |-> 0]
  /\ fail_counts = EmptyDict
  /\ has_store = FALSE
  /\ pending_contexts = EmptyDict
  /\ ollama_checked = FALSE
  /\ cur = 1
  /\ phase = "idle"
  /\ execution_count = 0
  /\ attempt_failed = FALSE
  /\ call_failures = 0
  /\ hook = HookNoAction(TestIds[1], "none", FALSE)
  /\ deco_contexts = NoStore
  /\ wrap = NoWrap

ParseInit ==
  /\ MainIdle
  /\ response_text \in ResponseTexts
  /\ parsed = NotParsed
  /\ capture = NoCapture
  /\ gw = GwIdle
  /\ perf = PerfIdle
  /\ lk = LkIdle

ParseNext == ParseResponse

ParseSpec == ParseInit /\ [][ParseNext]_vars

(***************************************************************************)
(* The context capture on its own: any page behaviour, with and without a  *)
(* page, in the decorator and in the hook.                                 *)
(***************************************************************************)
CaptureInit == MainIdle /\ AuxIdle

CaptureNext ==
  \/ CaptureInDecorator
  \/ CaptureInHook

CaptureSpec == CaptureInit /\ [][CaptureNext]_vars

(***************************************************************************)
(* ensure_ollama_running on its own, called again and again, against a     *)
(* service that answers each request in any way.  The code runs            *)
(* sequentially and every request ends with an answer or an exception      *)
(* (the timeouts), so a step that can be taken is taken.                   *)
(***************************************************************************)
GatewayInit == MainIdle /\ AuxIdle

GatewayNext ==
  \/ EnsureCall
  \/ Ping
  \/ Which
  \/ Popen
  \/ Probe
  \/ ProbesDone
  \/ ListModels
  \/ Pull
  \/ Warmup
  \/ WarmupDone
  \/ EnsureReturn

GatewaySpec == GatewayInit /\ [][GatewayNext]_vars /\ WF_vars(GatewayNext)

(***************************************************************************)
(* The performance monitor on its own: a test on a plain or an enhanced    *)
(* page navigates, measures and asks for averages; the fixture saves the   *)
(* history when the test is over.                                          *)
(***************************************************************************)
PerfInit ==
  /\ MainIdle
  /\ response_text = <<>>
  /\ parsed = NotParsed
  /\ capture = NoCapture
  /\ gw = GwIdle
  /\ lk = LkIdle
  /\ \E p \in PerfPages : perf \in {p, enhanced_page(p)}

PerfNext ==
  \/ TestGoto
  \/ TestReload
  \/ HistoryMutation
  \/ MeasureCurrentPage
  \/ MeasurePagePerformance
  \/ MeasureAfterSpaRouteChange
  \/ GetAverageMetrics
  \/ SaveMetrics

PerfSpec == PerfInit /\ [][PerfNext]_vars

(***************************************************************************)
(* Two workers report failed calls of the items at the same time.          *)
(***************************************************************************)
LockInit ==
  /\ MainIdle
  /\ response_text = <<>>
  /\ parsed = NotParsed
  /\ capture = NoCapture
  /\ gw = GwIdle
  /\ perf = PerfIdle
  /\ lk = LkIdle

LockNext ==
  \E w \in Workers :
    \/ HookEnter(w)
    \/ Acquire(w)
    \/ Load(w)
    \/ Store(w)
    \/ Read(w)
    \/ CheckStore(w)
    \/ CreateStore(w)
    \/ Insert(w)
    \/ Healing(w)
    \/ WorkerPing(w)
    \/ WorkerLaunch(w)
    \/ WorkerLoadModel(w)
    \/ Lookup(w)
    \/ Call(w)
    \/ Delete(w)
    \/ Release(w)

LockSpec == LockInit /\ [][LockNext]_vars

(***************************************************************************)
(* Properties.                                                             *)
(***************************************************************************)
Has(evs, e) == \E i \in 1..Len(evs) : evs[i] = e

Count(evs, e) == Cardinality({i \in 1..Len(evs) : evs[i] = e})

First(evs, e) == CHOOSE i \in 1..Len(evs) :
                   evs[i] = e /\ \A j \in 1..(i - 1) : evs[j] # e

\* the last hook invocation handled a failed call-phase report
CallFailed == hook.when = "call" /\ hook.failed

GatewayEvents == {"probe", "launch", "model_load"}

WriteEvents == {"write_report", "write_candidate"}

Budget == MaxRerunsOf(reruns_opt)

\* C1: counting the failed call reports of an item from an absent counter
\* entry, each of the first R reports observes the count k, is classified
\* retry and touches neither the gateway nor the model; report R+1 observes
\* R+1, is classified final and, with healing enabled, the service ready
\* and a context present, invokes the model exactly once.
C1_RetryThenFinal ==
  CallFailed =>
    /\ call_failures <= Budget =>
         /\ hook.fail_count = call_failures
         /\ hook.class = "retry"
         /\ \A e \in GatewayEvents \cup {"model_call"} : ~Has(hook.events, e)
    /\ call_failures = Budget + 1 =>
         /\ hook.fail_count = call_failures
         /\ hook.class = "final"
         /\ (enabled /\ ollama_checked /\ hook.test \in hook.store_keys)
              => Count(hook.events, "model_call") = 1

C1_Witness ==
  /\ CallFailed /\ Budget = 2 /\ call_failures = 3 /\ hook.fail_count = 3
  /\ hook.class = "final" /\ Count(hook.events, "model_call") = 1

\* C2: with healing disabled no failure report, under any rerun budget,
\* probes or starts the service, loads or calls the model, or writes a
\* report or a candidate file.
C2_DisabledNeverHeals ==
  ~enabled =>
    \A e \in GatewayEvents \cup WriteEvents \cup {"model_call"} :
      ~Has(hook.events, e)

C2_Witness ==
  /\ ~enabled /\ CallFailed /\ hook.class = "final" /\ Budget = MaxReruns
  /\ hook.fail_count = MaxReruns + 1

\* C3: the failure hook never raises out of its healing section, so the
\* runner always receives the report of the original failure.
C3_HookNeverRaises == ~hook.raised /\ phase # "crashed"

\* C4: a decorated test that raises E makes the wrapper raise the same E,
\* with healing enabled or disabled and with the capture succeeding or
\* failing; a decorated test that returns has its value returned unchanged.
C4_WrapperTransparent ==
  wrap.decorator # "none" => wrap.result = wrap.outcome

C4_Witness ==
  /\ wrap.decorator = "ai_healing" /\ enabled
  /\ wrap.outcome.kind = "raise" /\ wrap.outcome.val \in Exceptions
  /\ wrap.cap = "outer" /\ Has(wrap.events, "capture_failed")
  /\ wrap.result = wrap.outcome

\* C5: the model is invoked for an item only when the observed failure
\* count exceeds the retry budget, healing is enabled and the pending store
\* holds a context under the item's id.
C5_ModelCallGuard ==
  Has(hook.events, "model_call") =>
    /\ hook.fail_count > Budget
    /\ enabled
    /\ hook.test \in hook.store_keys

C5_Witness ==
  /\ Has(hook.events, "model_call") /\ hook.fail_count > Budget
  /\ hook.test \in hook.store_keys

\* C6: within one failure report the capture comes before the finality
\* check, every model call comes after the finality check, and a model
\* call is made only for an item whose context was captured.
C6_CaptureCheckCall ==
  CallFailed =>
    /\ Has(hook.events, "capture") /\ Has(hook.events, "finality_check")
    /\ First(hook.events, "capture") < First(hook.events, "finality_check")
    /\ \A i \in 1..Len(hook.events) :
         hook.events[i] \in {"context_saved", "capture"} =>
           i < First(hook.events, "finality_check")
    /\ \A i \in 1..Len(hook.events) :
         hook.events[i] = "model_call" =>
           /\ i > First(hook.events, "finality_check")
           /\ hook.test \in hook.store_keys

C6_Witness ==
  /\ CallFailed /\ hook.saved /\ Has(hook.events, "model_call")
  /\ Has(hook.events, "write_report")

\* C7: every failed call report raises the item's count by exactly one,
\* and when the count it observes exceeds the retry budget the counter
\* entry is absent once the hook has returned.
C7_CountedThenCleared ==
  [][(phase = "call" /\ hook'.when = "call" /\ hook'.failed) =>
       /\ hook'.fail_count = CountOf(fail_counts, hook'.test) + 1
       /\ (hook'.fail_count > Budget /\ ~hook'.raised)
            => hook'.test \notin DOMAIN fail_counts']_vars

\* C8: after a passing call report of an item no counter entry of that
\* item is left.
C8_PassClearsCounter ==
  (hook.when = "call" /\ ~hook.failed) => hook.test \notin DOMAIN fail_counts

\* C9: a failed call report is classified final exactly when the runner
\* makes no further attempt of the item.
C9_FinalIffNoRerun ==
  CallFailed =>
    (hook.class = "final"
       <=> ~WillRerun(TRUE, execution_count, item_reruns[hook.test]))

C11_FinalClearsContext ==
  (CallFailed /\ hook.class = "final" /\ ~hook.raised)
    => hook.test \notin DOMAIN pending_contexts

\* C12: for every response text the parser returns a mapping in which
\* confidence is present and is a number between 0 and 1.
C12_ParseTotal ==
  parsed # NotParsed =>
    /\ parsed.t = "dict"
    /\ Key("C") \in DOMAIN parsed.o
    /\ parsed.o[Key("C")].t = "num"
    /\ parsed.o[Key("C")].n \in 0..10

\* C13: a response text that is exactly one well-formed object with the
\* six schema fields, braces and code fences inside its values included,
\* is parsed to a mapping that holds each of the six values unchanged.
C13_RoundTrip ==
  parsed # NotParsed =>
    \A o \in SchemaObjects :
      response_text = RenderObject(o) =>
        /\ parsed.t = "dict"
        /\ \A i \in DOMAIN o :
             /\ Key(o[i].k) \in DOMAIN parsed.o
             /\ parsed.o[Key(o[i].k)] = o[i].v

\* C14: free prose followed by one flat object, without fences and nested
\* braces, is parsed to exactly the fields of that object.
C14_ProseThenFlatObject ==
  parsed # NotParsed =>
    \A p \in Proses, o \in FlatObjects :
      response_text = p \o RenderObject(o) => parsed = DictOf(o)

C14_Witness ==
  /\ response_text =
       <<"x", "_", "y", "_">>
         \o RenderObject(<<[k |-> "A", v |-> PyStr(<<"x", "_", "y">>)],
                           [k |-> "C", v |-> PyNum(9)],
                           [k |-> "R", v |-> PyStr(<<"y">>)]>>)
  /\ parsed.t = "dict"
  /\ DOMAIN parsed.o = {Key("A"), Key("C"), Key("R")}
  /\ parsed.o[Key("C")] = PyNum(9)
  /\ parsed.o[Key("A")] = PyStr(<<"x", "_", "y">>)

\* C15 as stated: when generate answers with an empty response text,
\* _query_ollama returns None, the hook skips healing and writes neither a
\* report nor a candidate.
C15_EmptyReturnsNone ==
  (Has(hook.events, "model_call") /\ hook.model.gen = "empty") =>
    /\ hook.model.raw = PyNone
    /\ \A e \in WriteEvents \cup {"emit_report"} : ~Has(hook.events, e)

\* C15 amended: when generate answers with an empty response text,
\* _query_ollama returns that empty string (None only when the call
\* raises); in both cases call_ollama_healing answers with an error dict,
\* the hook returns without healing and writes neither a report nor a
\* candidate.
C15_EmptySkipsHealing ==
  Has(hook.events, "model_call") =>
    /\ hook.model.gen = "empty" => hook.model.raw = PyStr(<<>>)
    /\ hook.model.gen = "transport_error" => hook.model.raw = PyNone
    /\ hook.model.gen \in {"empty", "transport_error"} =>
         \A e \in WriteEvents \cup {"emit_report", "cleanup_context"} :
           ~Has(hook.events, e)

C15_Witness ==
  /\ CallFailed /\ Has(hook.events, "model_call")
  /\ hook.model.gen = "empty" /\ hook.model.raw = PyStr(<<>>)
  /\ ~Has(hook.events, "write_report")

\* C16: each call of generate_healing_report, on a file system that takes
\* the writes, writes exactly one report, and writes a candidate exactly
\* when the answer holds a non-empty updated_test_code.
C16_OneReportPerCall ==
  (Has(hook.events, "emit_report") /\ hook.model.write = "ok") =>
    /\ Count(hook.events, "emit_report") = 1
    /\ Count(hook.events, "write_report") = 1
    /\ Count(hook.events, "write_candidate")
         = (IF call_ollama_healing(hook.model.gen).code THEN 1 ELSE 0)

C18_CaptureDegradesPerField ==
  /\ (capture.kind = "hook" /\ capture.page) =>
       /\ {"test_name", "error_message"} \subseteq capture.context.fields
       /\ capture.pg.title = "ok" =>
            {"current_url", "page_title"} \subseteq capture.context.fields
  /\ (capture.kind = "decorator" /\ capture.page) =>
    LET fields == capture.context.fields
        pg == capture.pg
    IN  /\ {"test_name", "error_message"} \subseteq fields
        /\ (pg.url_ok /\ pg.title # "raises") => {"url", "title"} \subseteq fields
        /\ pg.shot_ok => "screenshot_path" \in fields
        /\ pg.dom_ok => "dom" \in fields
        /\ (~pg.url_ok \/ pg.title = "raises" \/ ~pg.shot_ok \/ ~pg.dom_ok)
             => "capture_error" \in fields

\* C19: a page DOM of at most 5000 characters is stored whole and without
\* marker, a longer one as its first 5000 characters followed by the
\* marker; the stored length never exceeds 5000 plus the marker length.
C19_DomBounded ==
  (capture.kind = "decorator" /\ "dom" \in capture.context.fields) =>
    LET dom == capture.context.dom
        len == capture.pg.dom_len
    IN  /\ len <= DomLimit => dom = [kept |-> len, marker |-> FALSE]
        /\ len > DomLimit => dom = [kept |-> DomLimit, marker |-> TRUE]
        /\ StoredLength(dom) <= DomLimit + MarkerLen

C19_Witness ==
  /\ capture.kind = "decorator" /\ "dom" \in capture.context.fields
  /\ capture.pg.dom_len = DomLimit + 1
  /\ capture.context.dom = [kept |-> DomLimit, marker |-> TRUE]
  /\ StoredLength(capture.context.dom) = DomLimit + MarkerLen

\* C20: every call of ensure_ollama_running ends, with a boolean and
\* without an exception, whatever the service answers; it ends with False
\* when the executable is missing, when none of the probes of the started
\* service is answered with 200, when the pull fails, and when the wait
\* budget runs out before the model gives a real response.
C20_AlwaysEndsWithBoolean ==
  /\ [](gw.pc = "done" =>
          /\ gw.result \in BOOLEAN /\ ~gw.raised
          /\ gw.exe = "missing" => ~gw.result
          /\ (gw.launched /\ ~gw.up) => ~gw.result
          /\ gw.pull = "failed" => ~gw.result
          /\ (gw.listed \in {"present", "absent"} /\ ~gw.ready)
               => ~gw.result
          /\ gw.i <= ProbeCount
          /\ gw.elapsed < MaxWait + GenerateTimeout + WarmupSleep)
  /\ [](gw.pc = "ping" => <>(gw.pc = "done"))

C20_Witness ==
  /\ gw.pc = "done" /\ ~gw.result /\ gw.launched /\ gw.up
  /\ gw.i = ProbeCount - 1 /\ gw.pull = "ok" /\ gw.elapsed >= MaxWait

\* C21: ensure_ollama_model_loaded returns True only after a warm-up
\* generate call returned a non-empty, non-error response; a pull request is
\* issued if and only if the requested model is absent from the list the
\* service returned; a failed pull returns False without any warm-up call.
C21_PullIffAbsent ==
  /\ (gw.pc = "done" /\ gw.listed # "none" /\ gw.result) => gw.ready
  /\ (gw.pc \in {"warm", "done"} /\ gw.listed \in {"present", "absent"})
       => ((gw.pull # "none") <=> (ModelName \notin gw.tags))
  /\ gw.pull = "failed" => (gw.pc = "done" /\ ~gw.result /\ ~gw.warmed)

\* the records of a history in which field X holds a number
PresentIn(h, X) == {i \in 1..Len(h) : h[i][X].t = "num"}

RECURSIVE SumAt(_, _, _)
SumAt(h, X, I) ==
  IF I = {} THEN 0
  ELSE LET i == CHOOSE j \in I : TRUE
       IN  h[i][X].n + SumAt(h, X, I \ {i})

\* C22: over a history of N records, get_average_metrics returns for every
\* numeric field X present (zero included) in M >= 1 of them the arithmetic
\* mean of exactly those M values; a field absent in all records is not in
\* the result, and an empty history yields an empty result.
C22_AverageOfPresent ==
  perf.ret.kind = "average" =>
    LET h == perf.history
        avg == perf.ret.value
    IN  /\ h = <<>> => avg = EmptyDict
        /\ \A j \in 1..Len(Fields) :
             LET X == Fields[j]
                 I == PresentIn(h, X)
             IN  IF I = {}
                   THEN X \notin DOMAIN avg
                   ELSE /\ X \in DOMAIN avg
                        /\ avg[X].den = Cardinality(I)
                        /\ avg[X].num = SumAt(h, X, I)

C22_Witness ==
  /\ perf.ret.kind = "average"
  /\ Len(perf.history) = 2
  /\ Cardinality(PresentIn(perf.history, "largest_contentful_paint")) = 1
  /\ Cardinality(PresentIn(perf.history, "page_load_time")) = 1
  /\ \E i \in 1..2 : perf.history[i].network_requests = PyNum(0)
  /\ perf.ret.value["page_load_time"] = [num |-> 4, den |-> 1]
  /\ "task_duration" \notin DOMAIN perf.ret.value

WaitKinds(p) == [i \in 1..Len(p.waits) |-> p.waits[i].wait]

\* C24: measure_page_performance(page, url) behaves as a navigation to url
\* followed by the measurement of measure_current_page: the same wait
\* sequence (network quiescence, the load signal when quiescence is not
\* reached, the settle delay), the same values read and one record
\* appended; whenever measure_current_page returns a record for the
\* document, measure_page_performance returns one too.
C24_FullIsNavigateThenMeasure ==
  [][perf'.op = "measure_page_performance" =>
       LET start == inject_web_vitals_script(
                      [Begin(perf, "measure_page_performance")
                         EXCEPT !.now = @ + 1])
           ref == measure_current_page(
                    Navigate(start, perf'.doc, perf'.lcp), <<>>)
           Untimed(m) == [m EXCEPT !.timestamp = PyNone]
       IN  ref.ret.kind = "record" =>
             /\ perf'.ret.kind = "record"
             /\ WaitKinds(perf') = WaitKinds(ref)
             /\ Untimed(perf'.ret.value) = Untimed(ref.ret.value)
             /\ Len(perf'.history) = Len(perf.history) + 1]_vars

C26_NoLoadTimeAfterTimeout ==
  (perf.op = "measure_after_spa_route_change" /\ perf.changed = "false"
     /\ perf.ret.kind = "record")
    => perf.ret.value.page_load_time = PyNone

\* C27: inject_web_vitals_script is idempotent: a measurement that follows
\* another measurement on the same page (each of them calls it) registers
\* no further init script and no further observer set, and does not reset
\* the vitals collected for the document shown.
C27_InjectIdempotent ==
  [][(perf.op = "measure_current_page"
        /\ perf'.op = "measure_current_page") =>
       /\ perf'.init_scripts = perf.init_scripts
       /\ perf'.observers = perf.observers
       /\ perf'.lcp = perf.lcp]_vars

\* C28: each full navigation (goto or reload) made through the enhanced
\* page appends exactly one metrics record to the monitor's history, also
\* when the navigation is issued by measure_page_performance.
C28_OneRecordPerNavigation ==
  [][(perf.enhanced /\ perf'.navigations > 0) =>
       Len(perf'.history) = Len(perf.history) + perf'.navigations]_vars

\* a JSON value and a CSV cell that stand for the same value
CellsAgree(j, c) ==
  CASE j.form = "null"   -> ~c.digits /\ c.s = <<>>
    [] j.form = "number" -> c.digits /\ c.n = j.n
    [] OTHER             -> ~c.digits /\ c.s = j.s

\* C29: for every history, the empty one included, save_metrics_to_json and
\* save_metrics_to_csv each write the file whose path they return, and the
\* two files hold the same records in history order with the same field
\* set, the CSV header being the field names of the first record; the
\* history is unchanged.
C29_ExportsEquivalent ==
  perf.phase = "saved" =>
    LET FileAt(path) == {f \in perf.files : f.path = path}
        Names == {Fields[i] : i \in 1..Len(Fields)}
    IN  /\ perf.paths = <<JsonPath, CsvPath>>
        /\ FileAt(JsonPath) # {}
        /\ FileAt(CsvPath) # {}
        /\ \A j \in FileAt(JsonPath), c \in FileAt(CsvPath) :
             /\ Len(j.rows) = Len(perf.history)
             /\ Len(c.rows) = Len(perf.history)
             /\ perf.history # <<>> => c.header = Fields
             /\ \A i \in 1..Len(perf.history) :
                  /\ DOMAIN j.rows[i] = Names
                  /\ DOMAIN c.rows[i] = Names
                  /\ \A k \in Names :
                       /\ j.rows[i][k] = JsonCell(perf.history[i][k])
                       /\ CellsAgree(j.rows[i][k], c.rows[i][k])

\* the counts read by the failure reports of item t since its counter
\* entry was last deleted
ObservedFor(t) == SelectSeq(lk.observed, LAMBDA o : o.key = t)

\* C30: with workers reporting failures concurrently, for the same or for
\* different test ids, no increment is lost: k reports for one id with no
\* deletion in between leave the counter at k and observe the k distinct
\* values 1..k.
C30_NoLostIncrement ==
  \A t \in Tests :
    LET seen == ObservedFor(t)
        k == Len(seen)
        reading == {w \in Workers : lk.pc[w] = "read" /\ lk.key[w] = t}
    IN  /\ {seen[i].fail_count : i \in 1..k} = 1..k
        /\ CountOf(fail_counts, t) = k + Cardinality(reading)

C30_Witness ==
  /\ Len(ObservedFor(TestIds[1])) = 3
  /\ CountOf(fail_counts, TestIds[1]) = 3
  /\ \E i, j \in 1..3 : lk.observed[i].fail_count = 1
                        /\ lk.observed[j].fail_count = 3
  /\ lk.fail_count["w1"] # lk.fail_count["w2"]
  /\ lk.fail_count["w1"] > 0 /\ lk.fail_count["w2"] > 0

\* C31: the pending-context store is created, written, read and cleaned
\* under the mutual-exclusion lock, so that with two workers failing
\* concurrently no stored context is lost and the final-failure lookup of
\* each worker finds the context that worker stored.
C31_LookupFindsOwnContext ==
  \A w \in Workers :
    lk.found[w].kind # "pending"
      => lk.found[w] = NewContext(lk.key[w], lk.fail_count[w])

\* C32: of the workers that are inside ensure_ollama_running at the same
\* time with the flag unset, at most one launches the service subprocess
\* and at most one writes the 'service checked' flag.
C32_LaunchedOnce ==
  /\ Cardinality({w \in Workers : lk.started[w]}) <= 1
  /\ Cardinality({w \in Workers : lk.wrote[w]}) <= 1

\* C33: a strategy whose candidate is not valid JSON counts as failed and
\* the next one is tried on the response: a response with a fenced block
\* that is not JSON, followed by a valid object, parses to that object.
C33_NextStrategyOnResponse ==
  \A f \in BadFences : \A o \in FlatObjects :
    response_text = f \o RenderObject(o) /\ parsed # NotParsed
      => parsed = DictOf(o)

\* C34: for a non-empty response from which neither the candidate nor the
\* cleaned candidate parses as JSON and in which none of the fields
\* analysis, root_cause, confidence is found by pattern, the parser returns
\* the final fallback: the whole text as analysis, confidence 0.2 and the
\* raw_unparsed_response field.
C34_ProseGetsFinalFallback ==
  LET candidate == SelectCandidate(response_text)
  IN  (/\ parsed # NotParsed
       /\ response_text # <<>>
       /\ ~json_loads(candidate).ok
       /\ ~json_loads(CleanCandidate(candidate)).ok
       /\ ~QuotedField(response_text, "A").found
       /\ ~QuotedField(response_text, "R").found
       /\ ~ConfidenceField(response_text).found)
        => parsed = FinalFallback(response_text)

\* C35: a history mutation caused by the action just before
\* measure_after_spa_route_change is detected: the wait that follows the
\* mutation returns True, also when the mutation was complete before the
\* function was entered.
C35_MutationBeforeEntryDetected ==
  [][(perf.op = "history" /\ perf'.op = "measure_after_spa_route_change")
       => perf'.changed = "true"]_vars

\* C36: the route-change counter of the page never decreases, over history
\* mutations and over document navigations and reloads, and a history
\* mutation increases it by exactly one.
C36_CounterNeverDecreases ==
  [][/\ perf'.route_id >= perf.route_id
     /\ (perf'.op = "history" /\ perf'.route_id # perf.route_id)
          => perf'.route_id = perf.route_id + 1]_vars

\* C37: once the ai_healing decorator has saved a context for a failing
\* test, the lookup of the final-failure hook for that test finds this
\* context: the store the hook reads exists and holds, under the hook's
\* key, what the decorator stored under its key.
C37_HookFindsDecoratorContext ==
  (/\ wrap.decorator = "ai_healing"
   /\ \E i \in DOMAIN wrap.events : wrap.events[i] = "context_saved")
    => /\ has_store
       /\ LookupContext(pending_contexts, wrap.test)
            = DictGet(deco_contexts.dict, DecoratorKey(wrap.test))

\* C38: when the hook calls the model for a failed call report of a test,
\* the context it looked up and sent is the one captured in this same
\* report, never one left in the store by an earlier attempt.
C38_SentContextIsFresh ==
  [][(/\ phase = "call" /\ phase' # "call"
      /\ hook'.failed
      /\ hook'.model # NotCalled)
       => LET fresh == NewContext(CurTest, execution_count)
              store == IF hook'.saved
                         THEN DictPut(pending_contexts, CurTest, fresh)
                         ELSE pending_contexts
          IN  LookupContext(store, CurTest) = fresh]_vars

\* C39: _ollama_checked is set only by the step that ends a call of
\* ensure_ollama_running with True, in which the service has answered (the
\* first request, or a probe after the launch, and the model list) and the
\* warm-up got a real response; it is never cleared; a call made with the
\* flag set returns True at once, with no request sent and nothing
\* launched.
C39_FlagSetOnceAfterWarmup ==
  [][/\ (~ollama_checked /\ ollama_checked')
          => /\ gw.pc = "warm" /\ gw'.pc = "done" /\ gw'.result
             /\ gw'.ready
             /\ gw'.listed \in {"present", "absent"}
             /\ gw'.launched => gw'.up
     /\ ollama_checked => ollama_checked'
     /\ (ollama_checked /\ gw.pc = "idle" /\ gw'.pc # "idle")
          => /\ gw'.pc = "done" /\ gw'.result
             /\ ~gw'.launched /\ gw'.listed = "none" /\ ~gw'.warmed]_vars

\* a later call has returned True with the flag set and no request made
C39_Witness ==
  /\ ollama_checked
  /\ gw.pc = "done" /\ gw.result
  /\ gw.listed = "none" /\ ~gw.warmed

\* the steps of the two with blocks of the hook
LockSections == {"load", "store", "read", "counted", "delete", "deleted"}

\* C40: a worker holds the counter lock exactly while it is inside the
\* increment-and-read block or the delete block, so never during context
\* capture, gateway start-up, the model call or report writing, and never
\* after it has left the hook; a worker that waits for the lock waits for
\* a holder inside one of the two blocks, never for a worker in a model
\* call.
C40_LockOnlyAroundCounter ==
  /\ \A w \in Workers : lk.holder = w <=> lk.pc[w] \in LockSections
  /\ lk.holder \in Workers \cup {"none"}
  /\ \A w \in Workers :
       (lk.pc[w] \in {"count", "forget"} /\ ~CanAcquire(lk.holder))
         => /\ lk.holder \in Workers \ {w}
            /\ lk.pc[lk.holder] \in LockSections

\* one worker is inside the model call while the other holds the lock for
\* its increment-and-read
C40_Witness ==
  /\ lk.pc["w1"] = "call"
  /\ lk.pc["w2"] = "store"
  /\ lk.holder = "w2"

============================================================================
